---- MODULE Spec2Model ----
(***************************************************************************)
(* Model of the Miro "Image Align Tool" (src/app.js): key extraction from  *)
(* titles, the two sorting orders, the grid alignment of a selection, the  *)
(* colour-code title format and the slice plan of the import handler.      *)
(*                                                                         *)
(* Strings are sequences of one-character strings, so that regular         *)
(* expressions, padding, lower-casing and comparison are computed          *)
(* character by character as the JavaScript code computes them.            *)
(***************************************************************************)
EXTENDS Integers, Sequences, FiniteSets, TLC

VARIABLES
    str,        \* key extraction: the string handed to extractTrailingNumber
    num,        \* key extraction: its result (unset before the call)
    form,       \* sorting panel: the raw values of the form fields
    board,      \* the selected board items, in the order getSelection returns them
    before,     \* the selected items as they were when the handler started
    ordered,    \* ids of the images in the order handed to alignImagesInGivenOrder
    preMove,    \* the ordered images after size normalisation, before being moved
    notes,      \* notifications shown so far
    pc,         \* "idle" before the submit handler runs, "done" after it
    stitchForm, \* import panel: the raw values of the form fields
    files,      \* import panel: the files chosen in the file input
    host,       \* what the board does when asked: the viewport it reports and
                \* which board.createImage call it rejects (0: none)
    MAX_SLICE_DIM,  \* the per-side limit detectMaxSliceDim left at start-up
    created,    \* the widgets board.createImage returned, in creation order
    cut,        \* the source rectangles drawn for slicing, in loop order
    stitchNotes,    \* notifications shown by the import handler
    progress,   \* the last setProgress(done, total, label)
    stitchButtonDisabled,   \* the disabled flag of the import button
    stitchPc,   \* "idle" before the import handler runs, "done" after it
    encoder,    \* upload pipeline: one run of the tile encoder, call by call
    retry,      \* upload pipeline: one run of createImageWithRetry, call by call
    sched,      \* upload pipeline: one run of runWithAdaptiveConcurrency, batch by batch
    upload,     \* upload pipeline: the runners of runWithConcurrency, item by item
    throttle,   \* upload pipeline: one throttled function made by makeThrottled
    orderings,  \* what the calls of sortFilesByNameWithNumber on files returned
    numberSort, \* one call of sortImagesByNumber, await by await
    final       \* the final import handler, statement by statement

keyVars == <<str, num>>
sortingVars == <<form, board, before, ordered, preMove, notes, pc>>
importVars == <<stitchForm, files, host, MAX_SLICE_DIM, created, cut, stitchNotes,
                progress, stitchButtonDisabled, stitchPc>>
uploadVars == <<encoder, retry, sched, upload, throttle, orderings, numberSort, final>>
vars == <<str, num, form, board, before, ordered, preMove, notes, pc,
          stitchForm, files, host, MAX_SLICE_DIM, created, cut, stitchNotes,
          progress, stitchButtonDisabled, stitchPc, encoder, retry, sched,
          upload, throttle, orderings, numberSort, final>>

(***************************************************************************)
(* Bounds of the model                                                     *)
(***************************************************************************)
MaxStrLen == 4
MaxItems == 3
MaxCols == 3

(***************************************************************************)
(* Characters and strings                                                  *)
(***************************************************************************)
Digits == {"0", "1", "2", "3", "4", "5", "6", "7", "8", "9"}

\* the characters the JavaScript "." does not match (no s flag)
LineTerminators == {"\n", "\r"}

\* the characters the JavaScript \s matches, among those the model uses
WhiteSpace == {" ", "\n", "\r", "\t"}

IsDigit(c) == c \in Digits

DigitValue(c) ==
    CASE c = "0" -> 0 [] c = "1" -> 1 [] c = "2" -> 2 [] c = "3" -> 3
      [] c = "4" -> 4 [] c = "5" -> 5 [] c = "6" -> 6 [] c = "7" -> 7
      [] c = "8" -> 8 [] c = "9" -> 9

\* all strings over alphabet A of length 0..n
StringsUpTo(A, n) == UNION { [1..k -> A] : k \in 0..n }

\* Number.parseInt(digits, 10) on a non-empty run of decimal digits
RECURSIVE parseInt(_)
parseInt(ds) ==
    IF ds = <<>> THEN 0
    ELSE 10 * parseInt(SubSeq(ds, 1, Len(ds) - 1)) + DigitValue(ds[Len(ds)])

\* JavaScript null, for a function that otherwise returns a number >= 0
null == 0 - 1

(***************************************************************************)
(* extractTrailingNumber: str.match(/(\d+)(?!.*\d)/)                       *)
(***************************************************************************)
\* the lookahead body .*\d matches at position e (the position after the
\* digit run): some digit follows, reached over characters that "." matches
DotStarDigit(s, e) ==
    \E q \in e..Len(s) :
        /\ IsDigit(s[q])
        /\ \A k \in e..(q - 1) : s[k] \notin LineTerminators

\* (\d+)(?!.*\d) matches at start p with a run of n digits
RunMatches(s, p, n) ==
    /\ p + n - 1 <= Len(s)
    /\ \A k \in p..(p + n - 1) : IsDigit(s[k])
    /\ ~DotStarDigit(s, p + n)

\* the regex engine takes the leftmost start, and there the longest run
\* (greedy \d+ gives digits back only when the lookahead fails)
MatchStarts(s) == { p \in 1..Len(s) : \E n \in 1..Len(s) : RunMatches(s, p, n) }

Min(S) == CHOOSE m \in S : \A o \in S : m <= o
Max(S) == CHOOSE m \in S : \A o \in S : m >= o

extractTrailingNumber(s) ==
    IF MatchStarts(s) = {} THEN null
    ELSE LET p == Min(MatchStarts(s))
             n == Max({ m \in 1..Len(s) : RunMatches(s, p, m) })
         IN  parseInt(SubSeq(s, p, p + n - 1))

(***************************************************************************)
(* JavaScript strings: UTF-16 code units, toLowerCase, <, String(n)        *)
(***************************************************************************)
CodeUnit(c) ==
    CASE c = "\t" -> 9  [] c = "\n" -> 10 [] c = "\r" -> 13 [] c = " " -> 32
      [] c = "." -> 46  [] c = "/" -> 47
      [] c \in Digits -> 48 + DigitValue(c)
      [] c = "A" -> 65  [] c = "B" -> 66  [] c = "C" -> 67
      [] c = "_" -> 95
      [] c = "a" -> 97  [] c = "b" -> 98  [] c = "c" -> 99
      [] c = "g" -> 103 [] c = "i" -> 105 [] c = "m" -> 109
      [] c = "n" -> 110 [] c = "p" -> 112 [] c = "x" -> 120

LowerChar(c) ==
    CASE c = "A" -> "a" [] c = "B" -> "b" [] c = "C" -> "c" [] OTHER -> c

toLowerCase(s) == [k \in 1..Len(s) |-> LowerChar(s[k])]

\* a < b on strings: the first differing code unit decides, a proper prefix
\* is smaller
StrLess(a, b) ==
    \E k \in 1..(Len(b)) :
        /\ \A j \in 1..(k - 1) : j <= Len(a) /\ a[j] = b[j]
        /\ \/ k = Len(a) + 1
           \/ k <= Len(a) /\ CodeUnit(a[k]) < CodeUnit(b[k])

DigitChar(d) ==
    CASE d = 0 -> "0" [] d = 1 -> "1" [] d = 2 -> "2" [] d = 3 -> "3"
      [] d = 4 -> "4" [] d = 5 -> "5" [] d = 6 -> "6" [] d = 7 -> "7"
      [] d = 8 -> "8" [] d = 9 -> "9"

\* String(n) for an integer n >= 0
RECURSIVE String(_)
String(n) ==
    IF n < 10 THEN <<DigitChar(n)>>
    ELSE String(n \div 10) \o <<DigitChar(n % 10)>>

(***************************************************************************)
(* Array.prototype.sort(cmp): a stable sort.  cmp[<<i, j>>] is what the    *)
(* comparator returns for the elements at positions i and j of the input:  *)
(* negative, zero or positive.  Computed as an insertion sort, each        *)
(* element going after the last element already placed that does not       *)
(* compare greater.                                                        *)
(***************************************************************************)
\* t: the positions placed so far, in sorted order; e: the position to place
InsertSorted(t, e, cmp) ==
    LET notGreater == { i \in 1..Len(t) : cmp[<<t[i], e>>] <= 0 }
        k == IF notGreater = {} THEN 0 ELSE Max(notGreater)
    IN  SubSeq(t, 1, k) \o <<e>> \o SubSeq(t, k + 1, Len(t))

ArraySort(s, cmp) ==
    LET sorted[k \in 0..Len(s)] ==
            IF k = 0 THEN <<>> ELSE InsertSorted(sorted[k - 1], k, cmp)
    IN  [p \in 1..Len(s) |-> s[sorted[Len(s)][p]]]

IndexPairs(s) == (1..Len(s)) \X (1..Len(s))

(***************************************************************************)
(* Board items: [id, type, title, x, y, width, height]; x, y is the centre *)
(***************************************************************************)
getTitle(item) == item.title

compareByGeometry_XFirst(a, b) ==
    IF a.x < b.x THEN 0 - 1
    ELSE IF a.x > b.x THEN 1
    ELSE IF a.y < b.y THEN 0 - 1
    ELSE IF a.y > b.y THEN 1
    ELSE 0

\* the comparator of sortByGeometry
compareByGeometry(a, b) ==
    IF a.y < b.y THEN 0 - 1
    ELSE IF a.y > b.y THEN 1
    ELSE IF a.x < b.x THEN 0 - 1
    ELSE IF a.x > b.x THEN 1
    ELSE 0

sortByGeometry(images) ==
    ArraySort(images,
        [p \in IndexPairs(images) |-> compareByGeometry(images[p[1]], images[p[2]])])

(***************************************************************************)
(* sortImagesByNumber                                                      *)
(***************************************************************************)
numberMeta(images) ==
    [i \in 1..Len(images) |->
        LET title == getTitle(images[i])
            n == extractTrailingNumber(title)
        IN  [img |-> images[i], index |-> i - 1, title |-> title,
             lower |-> toLowerCase(title), hasNumber |-> n # null, num |-> n]]

compareByNumber_NoTitleTieBreak(a, b) ==
    IF a.hasNumber /\ ~b.hasNumber THEN 0 - 1
    ELSE IF ~a.hasNumber /\ b.hasNumber THEN 1
    ELSE IF a.hasNumber /\ b.hasNumber /\ a.num # b.num THEN a.num - b.num
    ELSE IF a.hasNumber /\ b.hasNumber THEN a.index - b.index
    ELSE IF StrLess(a.lower, b.lower) THEN 0 - 1
    ELSE IF StrLess(b.lower, a.lower) THEN 1
    ELSE a.index - b.index

compareByNumber_ReverseTies(a, b) ==
    IF a.hasNumber /\ ~b.hasNumber THEN 0 - 1
    ELSE IF ~a.hasNumber /\ b.hasNumber THEN 1
    ELSE IF a.hasNumber /\ b.hasNumber /\ a.num # b.num THEN a.num - b.num
    ELSE IF StrLess(a.lower, b.lower) THEN 0 - 1
    ELSE IF StrLess(b.lower, a.lower) THEN 1
    ELSE b.index - a.index

\* the comparator of meta.sort in sortImagesByNumber
compareByNumber(a, b) ==
    IF a.hasNumber /\ ~b.hasNumber THEN 0 - 1
    ELSE IF ~a.hasNumber /\ b.hasNumber THEN 1
    ELSE IF a.hasNumber /\ b.hasNumber THEN
        IF a.num # b.num THEN a.num - b.num
        ELSE IF StrLess(a.lower, b.lower) THEN 0 - 1
        ELSE IF StrLess(b.lower, a.lower) THEN 1
        ELSE a.index - b.index
    ELSE IF StrLess(a.lower, b.lower) THEN 0 - 1
    ELSE IF StrLess(b.lower, a.lower) THEN 1
    ELSE a.index - b.index

\* the renaming pre-step: titles "1", "2", ... in geometry order
renameByGeometry(images) ==
    LET geoOrder == sortByGeometry(images)
    IN  [k \in 1..Len(geoOrder) |-> [geoOrder[k] EXCEPT !.title = String(k)]]

\* returns the images (renamed when a title was empty) in sorted order
sortImagesByNumber(images) ==
    LET hasAnyEmptyTitle == \E i \in 1..Len(images) : getTitle(images[i]) = <<>>
        input == IF hasAnyEmptyTitle THEN renameByGeometry(images) ELSE images
        meta == numberMeta(input)
        sorted == ArraySort(meta,
            [p \in IndexPairs(meta) |-> compareByNumber(meta[p[1]], meta[p[2]])])
    IN  [k \in 1..Len(sorted) |-> sorted[k].img]

(***************************************************************************)
(* sortImagesByColor: title.match(/^C(\d{2})\/(\d{3})\s+/)                 *)
(***************************************************************************)
SAT_GROUP_THRESHOLD == 35

\* the prefix C, two digits, /, three digits and at least one white space
HasColorCode(title) ==
    /\ Len(title) >= 8
    /\ title[1] = "C"
    /\ IsDigit(title[2]) /\ IsDigit(title[3])
    /\ title[4] = "/"
    /\ IsDigit(title[5]) /\ IsDigit(title[6]) /\ IsDigit(title[7])
    /\ title[8] \in WhiteSpace

colorMeta(images) ==
    [i \in 1..Len(images) |->
        LET title == getTitle(images[i])
        IN  IF ~HasColorCode(title)
            THEN [img |-> images[i], index |-> i - 1, title |-> title,
                  hasCode |-> FALSE, group |-> 1,
                  satCode |-> null, briCode |-> null]
            ELSE LET satCode == parseInt(SubSeq(title, 2, 3))
                     briCode == parseInt(SubSeq(title, 5, 7))
                 IN  [img |-> images[i], index |-> i - 1, title |-> title,
                      hasCode |-> TRUE,
                      group |-> IF satCode <= SAT_GROUP_THRESHOLD THEN 0 ELSE 1,
                      satCode |-> satCode, briCode |-> briCode]]

compareByColor_SatBeforeBri(a, b) ==
    IF a.hasCode /\ b.hasCode THEN
        IF a.group # b.group THEN a.group - b.group
        ELSE IF a.satCode # b.satCode THEN a.satCode - b.satCode
        ELSE IF a.briCode # b.briCode THEN a.briCode - b.briCode
        ELSE a.index - b.index
    ELSE IF a.hasCode THEN 0 - 1
    ELSE IF b.hasCode THEN 1
    ELSE a.index - b.index

\* the comparator of meta.sort in sortImagesByColor
compareByColor(a, b) ==
    IF a.hasCode /\ b.hasCode THEN
        IF a.group # b.group THEN a.group - b.group
        ELSE IF a.briCode # b.briCode THEN a.briCode - b.briCode
        ELSE IF a.satCode # b.satCode THEN a.satCode - b.satCode
        ELSE a.index - b.index
    ELSE IF a.hasCode THEN 0 - 1
    ELSE IF b.hasCode THEN 1
    ELSE a.index - b.index

sortImagesByColor(images) ==
    LET meta == colorMeta(images)
        anyCode == \E i \in 1..Len(meta) : meta[i].hasCode
        sorted == ArraySort(meta,
            [p \in IndexPairs(meta) |-> compareByColor(meta[p[1]], meta[p[2]])])
    IN  IF ~anyCode THEN sortByGeometry(images)
        ELSE [k \in 1..Len(sorted) |-> sorted[k].img]

(***************************************************************************)
(* alignImagesInGivenOrder                                                 *)
(* config = [imagesPerRow, horizontalGap, verticalGap, sizeMode,           *)
(*           startCorner].  Sizes and gaps of the model are even numbers,  *)
(* so that every division by two below is exact.                           *)
(***************************************************************************)
Half(n) == n \div 2

\* Math.ceil(a / b) for a >= 0, b > 0
CeilDiv(a, b) == (a + b - 1) \div b

\* size normalisation: every image gets the smallest width (or height) and
\* is synced.  The code writes only the one dimension; the host either
\* leaves the other one as it is or rescales it to keep the aspect ratio.
normalizeSize(images, sizeMode, hostKeepsAspect) ==
    LET n == Len(images)
        targetWidth == Min({ images[i].width : i \in 1..n })
        targetHeight == Min({ images[i].height : i \in 1..n })
    IN  IF sizeMode = "width" THEN
            [i \in 1..n |->
                [images[i] EXCEPT
                    !.width = targetWidth,
                    !.height = IF hostKeepsAspect
                               THEN (images[i].height * targetWidth) \div images[i].width
                               ELSE @]]
        ELSE IF sizeMode = "height" THEN
            [i \in 1..n |->
                [images[i] EXCEPT
                    !.height = targetHeight,
                    !.width = IF hostKeepsAspect
                              THEN (images[i].width * targetHeight) \div images[i].height
                              ELSE @]]
        ELSE images

\* the bounding box of the images where they are now
boundsOf(images) ==
    LET n == Len(images)
    IN  [minLeft   |-> Min({ images[i].x - Half(images[i].width) : i \in 1..n }),
         minTop    |-> Min({ images[i].y - Half(images[i].height) : i \in 1..n }),
         maxRight  |-> Max({ images[i].x + Half(images[i].width) : i \in 1..n }),
         maxBottom |-> Max({ images[i].y + Half(images[i].height) : i \in 1..n })]

cornerOrigin_BottomRightNoFlipY(startCorner, bb, gridWidth, gridHeight) ==
    CASE startCorner = "top-left" ->
            [originLeft |-> bb.minLeft, originTop |-> bb.minTop,
             flipX |-> FALSE, flipY |-> FALSE]
      [] startCorner = "top-right" ->
            [originLeft |-> bb.maxRight - gridWidth, originTop |-> bb.minTop,
             flipX |-> TRUE, flipY |-> FALSE]
      [] startCorner = "bottom-left" ->
            [originLeft |-> bb.minLeft, originTop |-> bb.maxBottom - gridHeight,
             flipX |-> FALSE, flipY |-> TRUE]
      [] startCorner = "bottom-right" ->
            [originLeft |-> bb.maxRight - gridWidth,
             originTop |-> bb.maxBottom - gridHeight,
             flipX |-> TRUE, flipY |-> FALSE]
      [] OTHER ->
            [originLeft |-> bb.minLeft, originTop |-> bb.minTop,
             flipX |-> FALSE, flipY |-> FALSE]

cornerOrigin_AnchorsAtTopLeft(startCorner, bb, gridWidth, gridHeight) ==
    [originLeft |-> bb.minLeft, originTop |-> bb.minTop,
     flipX |-> startCorner \in {"top-right", "bottom-right"},
     flipY |-> startCorner \in {"bottom-left", "bottom-right"}]

\* the switch on startCorner: where the grid's top-left corner goes and
\* which axes are mirrored
cornerOrigin(startCorner, bb, gridWidth, gridHeight) ==
    CASE startCorner = "top-left" ->
            [originLeft |-> bb.minLeft, originTop |-> bb.minTop,
             flipX |-> FALSE, flipY |-> FALSE]
      [] startCorner = "top-right" ->
            [originLeft |-> bb.maxRight - gridWidth, originTop |-> bb.minTop,
             flipX |-> TRUE, flipY |-> FALSE]
      [] startCorner = "bottom-left" ->
            [originLeft |-> bb.minLeft, originTop |-> bb.maxBottom - gridHeight,
             flipX |-> FALSE, flipY |-> TRUE]
      [] startCorner = "bottom-right" ->
            [originLeft |-> bb.maxRight - gridWidth,
             originTop |-> bb.maxBottom - gridHeight,
             flipX |-> TRUE, flipY |-> TRUE]
      [] OTHER ->
            [originLeft |-> bb.minLeft, originTop |-> bb.minTop,
             flipX |-> FALSE, flipY |-> FALSE]

\* the row of the image at 0-based position i: Math.floor(i / cols)
gridRowOf(i, total, cols) == i \div cols

\* the base layout in top-left orientation: per image the centre
\* (baseX, baseY), and the grid's width and height
baseLayout_CursorWithoutGap(images, cols, horizontalGap, verticalGap) ==
    LET total == Len(images)
        rows == CeilDiv(total, cols)
        rowOf(k) == gridRowOf(k - 1, total, cols)
        rowHeights == [r \in 0..(rows - 1) |->
            Max({0} \cup { images[k].height : k \in { j \in 1..total : rowOf(j) = r } })]
        widthsAfter[k \in 0..total] ==
            IF k = 0 THEN [r \in 0..(rows - 1) |-> 0]
            ELSE LET prev == widthsAfter[k - 1]
                     r == rowOf(k)
                 IN  [prev EXCEPT ![r] =
                        (IF prev[r] > 0 THEN prev[r] + horizontalGap ELSE prev[r])
                        + images[k].width]
        rowWidths == widthsAfter[total]
        heightSum[r \in 0..rows] ==
            IF r = 0 THEN 0 ELSE heightSum[r - 1] + rowHeights[r - 1]
        rowTop[r \in 0..(rows - 1)] ==
            IF r = 0 THEN 0 ELSE rowTop[r - 1] + rowHeights[r - 1] + verticalGap
        cursorBefore[k \in 1..total] ==
            IF k = 1 \/ rowOf(k - 1) # rowOf(k) THEN 0
            ELSE cursorBefore[k - 1] + images[k - 1].width
    IN  [gridWidth  |-> Max({ rowWidths[r] : r \in 0..(rows - 1) }),
         gridHeight |-> heightSum[rows] + verticalGap * Max({0, rows - 1}),
         baseX |-> [k \in 1..total |-> cursorBefore[k] + Half(images[k].width)],
         baseY |-> [k \in 1..total |->
                        rowTop[rowOf(k)] + Half(rowHeights[rowOf(k)])]]

baseLayout(images, cols, horizontalGap, verticalGap) ==
    LET total == Len(images)
        rows == CeilDiv(total, cols)
        rowOf(k) == gridRowOf(k - 1, total, cols)
        rowHeights == [r \in 0..(rows - 1) |->
            Max({0} \cup { images[k].height : k \in { j \in 1..total : rowOf(j) = r } })]
        widthsAfter[k \in 0..total] ==
            IF k = 0 THEN [r \in 0..(rows - 1) |-> 0]
            ELSE LET prev == widthsAfter[k - 1]
                     r == rowOf(k)
                 IN  [prev EXCEPT ![r] =
                        (IF prev[r] > 0 THEN prev[r] + horizontalGap ELSE prev[r])
                        + images[k].width]
        rowWidths == widthsAfter[total]
        heightSum[r \in 0..rows] ==
            IF r = 0 THEN 0 ELSE heightSum[r - 1] + rowHeights[r - 1]
        rowTop[r \in 0..(rows - 1)] ==
            IF r = 0 THEN 0 ELSE rowTop[r - 1] + rowHeights[r - 1] + verticalGap
        cursorBefore[k \in 1..total] ==
            IF k = 1 \/ rowOf(k - 1) # rowOf(k) THEN 0
            ELSE cursorBefore[k - 1] + images[k - 1].width + horizontalGap
    IN  [gridWidth  |-> Max({ rowWidths[r] : r \in 0..(rows - 1) }),
         gridHeight |-> heightSum[rows] + verticalGap * Max({0, rows - 1}),
         baseX |-> [k \in 1..total |-> cursorBefore[k] + Half(images[k].width)],
         baseY |-> [k \in 1..total |->
                        rowTop[rowOf(k)] + Half(rowHeights[rowOf(k)])]]

\* the images (already size-normalised) moved to their grid positions
placeImages(images, config) ==
    LET total == Len(images)
        cols == Max({1, config.imagesPerRow})
        base == baseLayout(images, cols, config.horizontalGap, config.verticalGap)
        o == cornerOrigin(config.startCorner, boundsOf(images),
                          base.gridWidth, base.gridHeight)
    IN  [k \in 1..total |->
            LET x0 == IF o.flipX THEN base.gridWidth - base.baseX[k] ELSE base.baseX[k]
                y0 == IF o.flipY THEN base.gridHeight - base.baseY[k] ELSE base.baseY[k]
            IN  [images[k] EXCEPT !.x = o.originLeft + x0, !.y = o.originTop + y0]]

\* [pre |-> the images after size normalisation, out |-> the images moved]
alignImagesInGivenOrder(images, config, hostKeepsAspect) ==
    IF images = <<>> THEN [pre |-> images, out |-> images]
    ELSE LET pre == normalizeSize(images, config.sizeMode, hostKeepsAspect)
         IN  [pre |-> pre, out |-> placeImages(pre, config)]

(***************************************************************************)
(* The title the import handler gives a created image:                     *)
(*   `C${pad2(info.satCode)}/${pad3(info.briCode)} ${file.name}`           *)
(***************************************************************************)
\* String.prototype.padStart(len, c) for a one-character c
padStart(s, len, c) ==
    IF Len(s) >= len THEN s
    ELSE [k \in 1..(len - Len(s)) |-> c] \o s

pad2(n) == padStart(String(n), 2, "0")

pad3_WidthTwo(n) == padStart(String(n), 2, "0")

pad3(n) == padStart(String(n), 3, "0")

colorTitle(satCode, briCode, name) ==
    <<"C">> \o pad2(satCode) \o <<"/">> \o pad3(briCode) \o <<" ">> \o name

(***************************************************************************)
(* handleSortingSubmit                                                     *)
(* A numeric form field is read as Number(field.value): NaN or a number.   *)
(* The host calls (getSelection, sync, notifications) are taken to         *)
(* succeed; the catch branch of the handler is not entered.                *)
(***************************************************************************)
NaNValue == [nan |-> TRUE, n |-> 0]
NumberValue(n) == [nan |-> FALSE, n |-> n]

\* Number(value) || d : NaN and 0 are falsy
OrDefault(v, d) == IF v.nan \/ v.n = 0 THEN d ELSE v.n

IsImage(item) == item.type = "image"

Note(kind, text) == [kind |-> kind, text |-> text]

\* the item of sequence items that has the given id
ItemById(items, id) == items[CHOOSE k \in 1..Len(items) : items[k].id = id]

HandleSortingSubmit ==
    /\ pc = "idle"
    /\ pc' = "done"
    /\ \E hostKeepsAspect \in (IF form.sizeMode = "none" THEN {FALSE} ELSE BOOLEAN) :
        LET imagesPerRow == OrDefault(form.imagesPerRow, 1)
            horizontalGap == OrDefault(form.horizontalGap, 0)
            verticalGap == OrDefault(form.verticalGap, 0)
            images == SelectSeq(board, IsImage)
        IN  IF images = <<>> THEN
                /\ notes' = Append(notes, Note("info", "Select at least one image"))
                /\ UNCHANGED <<board, ordered, preMove>>
            ELSE IF imagesPerRow < 1 THEN
                /\ notes' = Append(notes, Note("error", "Rows must be greater than 0"))
                /\ UNCHANGED <<board, ordered, preMove>>
            ELSE
                \E orderedImages \in
                        {IF form.sortMode = "color" THEN sortImagesByColor(images)
                         ELSE sortImagesByNumber(images)} :
                \E aligned \in
                        {alignImagesInGivenOrder(orderedImages,
                            [imagesPerRow |-> imagesPerRow,
                             horizontalGap |-> horizontalGap,
                             verticalGap |-> verticalGap,
                             sizeMode |-> form.sizeMode,
                             startCorner |-> form.startCorner], hostKeepsAspect)} :
                    /\ board' = [k \in 1..Len(board) |->
                            IF IsImage(board[k]) THEN ItemById(aligned.out, board[k].id)
                            ELSE board[k]]
                    /\ ordered' = [k \in 1..Len(orderedImages) |-> orderedImages[k].id]
                    /\ preMove' = aligned.pre
                    /\ notes' = notes
                         \o (IF form.sortMode = "color"
                             THEN <<Note("info", "Sorting by color")>> ELSE <<>>)
                         \o <<Note("info", "Done: aligned")>>
    /\ UNCHANGED <<form, before>>

(***************************************************************************)
(* The import (Stitch/Slice) side.                                         *)
(* A file is [id, name, status, width, height, analysis, hardTiles]:       *)
(* status says whether the browser can read and decode it, analysis        *)
(* whether the pixel analysis succeeds and the rounded codes it leads to,  *)
(* hardTiles are its tiles whose JPEG stays above MAX_URL_BYTES at every   *)
(* quality canvasToDataUrlUnderLimit tries.                                *)
(* Centres are kept doubled (x2 = 2 * x), so that halves of odd pixel      *)
(* sizes stay integers.                                                    *)
(***************************************************************************)
SAT_CODE_MAX == 99
SLICE_TILE_SIZE == 4096
SLICE_THRESHOLD_WIDTH == 8192
SLICE_THRESHOLD_HEIGHT == 4096

compareFilesByNumber_ByName(a, b) ==
    IF StrLess(a.lower, b.lower) THEN 0 - 1
    ELSE IF StrLess(b.lower, a.lower) THEN 1
    ELSE a.index - b.index

\* the comparator of arr.sort in sortFilesByNameWithNumber
compareFilesByNumber(a, b) ==
    IF a.hasNumber /\ ~b.hasNumber THEN 0 - 1
    ELSE IF ~a.hasNumber /\ b.hasNumber THEN 1
    ELSE IF a.hasNumber /\ b.hasNumber THEN
        IF a.num # b.num THEN a.num - b.num
        ELSE IF StrLess(a.lower, b.lower) THEN 0 - 1
        ELSE IF StrLess(b.lower, a.lower) THEN 1
        ELSE a.index - b.index
    ELSE IF StrLess(a.lower, b.lower) THEN 0 - 1
    ELSE IF StrLess(b.lower, a.lower) THEN 1
    ELSE a.index - b.index

fileMeta(fs) ==
    [i \in 1..Len(fs) |->
        LET n == extractTrailingNumber(fs[i].name)
        IN  [file |-> fs[i], index |-> i - 1, name |-> fs[i].name,
             lower |-> toLowerCase(fs[i].name), hasNumber |-> n # null, num |-> n]]

AnyFileHasNumber(fs) ==
    \E i \in 1..Len(fs) : extractTrailingNumber(fs[i].name) # null

\* shuffle: the permutation the Math.random loop produces when no file name
\* holds a number
sortFilesByNameWithNumber(fs, shuffle) ==
    LET arr == fileMeta(fs)
        sorted == ArraySort(arr,
            [p \in IndexPairs(arr) |-> compareFilesByNumber(arr[p[1]], arr[p[2]])])
    IN  IF ~AnyFileHasNumber(fs) THEN [k \in 1..Len(fs) |-> fs[shuffle[k]]]
        ELSE [k \in 1..Len(sorted) |-> sorted[k].file]

\* the flips of computeVariableSlotCenters and computeSkipMissingSlotCenters
slotFlipX(startCorner) == startCorner \in {"top-right", "bottom-right"}
slotFlipY(startCorner) == startCorner \in {"bottom-left", "bottom-right"}

\* doubled slot centres, one per info, around the doubled view centre
computeVariableSlotCenters(orderedInfos, imagesPerRow, startCorner, vcx2, vcy2) ==
    LET totalSlots == Len(orderedInfos)
        cols == Max({1, imagesPerRow})
        rows == CeilDiv(totalSlots, cols)
        rowOf(k) == (k - 1) \div cols
        rowHeights == [r \in 0..(rows - 1) |->
            Max({0} \cup { orderedInfos[k].height :
                             k \in { j \in 1..totalSlots : rowOf(j) = r } })]
        rowWidths == [r \in 0..(rows - 1) |->
            LET members == { j \in 1..totalSlots : rowOf(j) = r }
                widthTo[k \in 0..totalSlots] ==
                    IF k = 0 THEN 0
                    ELSE widthTo[k - 1]
                         + (IF k \in members THEN orderedInfos[k].width ELSE 0)
            IN  widthTo[totalSlots]]
        gridWidth == Max({ rowWidths[r] : r \in 0..(rows - 1) })
        heightSum[r \in 0..rows] ==
            IF r = 0 THEN 0 ELSE heightSum[r - 1] + rowHeights[r - 1]
        gridHeight == heightSum[rows]
        cursorBefore[k \in 1..totalSlots] ==
            IF k = 1 \/ rowOf(k - 1) # rowOf(k) THEN 0
            ELSE cursorBefore[k - 1] + orderedInfos[k - 1].width
    IN  IF totalSlots = 0 THEN <<>> ELSE
        [k \in 1..totalSlots |->
            LET x0 == 2 * cursorBefore[k] + orderedInfos[k].width - gridWidth
                y0 == 2 * heightSum[rowOf(k)] + rowHeights[rowOf(k)] - gridHeight
            IN  [x2 |-> vcx2 + (IF slotFlipX(startCorner) THEN 0 - x0 ELSE x0),
                 y2 |-> vcy2 + (IF slotFlipY(startCorner) THEN 0 - y0 ELSE y0)]]

\* tileInfos: sequence of [info, num]; the result maps a file id to its
\* doubled slot centre
computeSkipMissingSlotCenters(tileInfos, imagesPerRow, startCorner, vcx2, vcy2) ==
    LET nums == { tileInfos[k].num : k \in 1..Len(tileInfos) }
        minNum == Min(nums)
        maxNum == Max(nums)
        cols == Max({1, imagesPerRow})
        cellWidth == tileInfos[1].info.width
        cellHeight == tileInfos[1].info.height
        totalSlots == maxNum - minNum + 1
        rows == CeilDiv(totalSlots, cols)
        gridWidth == cols * cellWidth
        gridHeight == rows * cellHeight
        centerOf(k) ==
            LET pos == tileInfos[k].num - minNum
                row0 == pos \div cols
                col0 == pos % cols
                col == IF slotFlipX(startCorner) THEN cols - 1 - col0 ELSE col0
                row == IF slotFlipY(startCorner) THEN rows - 1 - row0 ELSE row0
            IN  [x2 |-> vcx2 - gridWidth + 2 * col * cellWidth + cellWidth,
                 y2 |-> vcy2 - gridHeight + 2 * row * cellHeight + cellHeight]
        \* Map.set: a later entry for the same file replaces an earlier one
        lastFor(id) == Max({ k \in 1..Len(tileInfos) : tileInfos[k].info.file = id })
    IN  [id \in { tileInfos[k].info.file : k \in 1..Len(tileInfos) } |->
            centerOf(lastFor(id))]

\* Math.max(0, Math.min(max, raw))
clampCode(raw, max) == Max({0, Min({max, raw})})

prepareFile_WidthOnly(file, maxDim) ==
    LET width == file.width
        height == file.height
        briCodeRaw == IF file.analysis.ok THEN file.analysis.briCodeRaw ELSE 500
        satCodeRaw == IF file.analysis.ok THEN file.analysis.satCodeRaw ELSE 0
        needsSlice == width > SLICE_THRESHOLD_WIDTH \/ height > SLICE_THRESHOLD_HEIGHT
        tilesX == IF needsSlice THEN CeilDiv(width, SLICE_TILE_SIZE) ELSE 1
        tilesY == IF needsSlice THEN CeilDiv(height, SLICE_TILE_SIZE) ELSE 1
    IN  [reject |-> IF file.status = "undecodable" THEN "decode"
                    ELSE IF width = 0 \/ height = 0 THEN "dimensions"
                    ELSE IF width > maxDim THEN "too large"
                    ELSE "none",
         file |-> file.id, name |-> file.name, hardTiles |-> file.hardTiles,
         width |-> width, height |-> height,
         briCode |-> clampCode(briCodeRaw, 999),
         satCode |-> clampCode(satCodeRaw, SAT_CODE_MAX),
         needsSlice |-> needsSlice,
         tilesX |-> tilesX, tilesY |-> tilesY, numTiles |-> tilesX * tilesY]

\* one pass of the preparation loop: why the file is rejected ("none" if it
\* is kept) and the info record pushed for it
prepareFile(file, maxDim) ==
    LET width == file.width
        height == file.height
        briCodeRaw == IF file.analysis.ok THEN file.analysis.briCodeRaw ELSE 500
        satCodeRaw == IF file.analysis.ok THEN file.analysis.satCodeRaw ELSE 0
        needsSlice == width > SLICE_THRESHOLD_WIDTH \/ height > SLICE_THRESHOLD_HEIGHT
        tilesX == IF needsSlice THEN CeilDiv(width, SLICE_TILE_SIZE) ELSE 1
        tilesY == IF needsSlice THEN CeilDiv(height, SLICE_TILE_SIZE) ELSE 1
    IN  [reject |-> IF file.status = "undecodable" THEN "decode"
                    ELSE IF width = 0 \/ height = 0 THEN "dimensions"
                    ELSE IF width > maxDim \/ height > maxDim THEN "too large"
                    ELSE "none",
         file |-> file.id, name |-> file.name, hardTiles |-> file.hardTiles,
         width |-> width, height |-> height,
         briCode |-> clampCode(briCodeRaw, 999),
         satCode |-> clampCode(satCodeRaw, SAT_CODE_MAX),
         needsSlice |-> needsSlice,
         tilesX |-> tilesX, tilesY |-> tilesY, numTiles |-> tilesX * tilesY]

\* the showError of a rejected file; file is the name the message quotes
rejectionNote(reject, name) ==
    [kind |-> "error",
     text |-> IF reject = "decode" THEN "Cannot import: browser failed to decode the image"
              ELSE IF reject = "dimensions" THEN "Cannot import: image has invalid dimensions"
              ELSE "Image is too large",
     file |-> name]

sliceRect_FullTiles(info, tx, ty) ==
    [sx |-> tx * SLICE_TILE_SIZE,
     sy |-> ty * SLICE_TILE_SIZE,
     sw |-> SLICE_TILE_SIZE,
     sh |-> SLICE_TILE_SIZE]

\* the source rectangle drawn into the canvas for tile (tx, ty)
sliceRect(info, tx, ty) ==
    [sx |-> tx * SLICE_TILE_SIZE,
     sy |-> ty * SLICE_TILE_SIZE,
     sw |-> Min({SLICE_TILE_SIZE, info.width - tx * SLICE_TILE_SIZE}),
     sh |-> Min({SLICE_TILE_SIZE, info.height - ty * SLICE_TILE_SIZE})]

\* the passes of the creation loop for one info, in order: "create" is a
\* pass that calls board.createImage, "skip" one whose tile stays too large
creationSteps(info, center) ==
    IF ~info.needsSlice THEN
        << [kind |-> "create", sliced |-> FALSE, file |-> info.file,
            hasTitle |-> TRUE,
            title |-> colorTitle(info.satCode, info.briCode, info.name),
            x2 |-> center.x2, y2 |-> center.y2, tx |-> 0, ty |-> 0,
            sx |-> 0, sy |-> 0, sw |-> info.width, sh |-> info.height] >>
    ELSE
        LET colWidths == [tx \in 0..(info.tilesX - 1) |->
                Min({SLICE_TILE_SIZE, info.width - tx * SLICE_TILE_SIZE})]
            rowHeights == [ty \in 0..(info.tilesY - 1) |->
                Min({SLICE_TILE_SIZE, info.height - ty * SLICE_TILE_SIZE})]
            colPrefix[tx \in 0..info.tilesX] ==
                IF tx = 0 THEN 0 ELSE colPrefix[tx - 1] + colWidths[tx - 1]
            rowPrefix[ty \in 0..info.tilesY] ==
                IF ty = 0 THEN 0 ELSE rowPrefix[ty - 1] + rowHeights[ty - 1]
            mosaicWidth == colPrefix[info.tilesX]
            mosaicHeight == rowPrefix[info.tilesY]
        IN  [j \in 1..(info.tilesX * info.tilesY) |->
                LET tx == (j - 1) % info.tilesX
                    ty == (j - 1) \div info.tilesX
                    r == sliceRect(info, tx, ty)
                IN  [kind |-> IF <<tx, ty>> \in info.hardTiles THEN "skip" ELSE "create",
                     sliced |-> TRUE, file |-> info.file,
                     hasTitle |-> FALSE, title |-> <<>>,
                     x2 |-> center.x2 - mosaicWidth + 2 * colPrefix[tx] + r.sw,
                     y2 |-> center.y2 - mosaicHeight + 2 * rowPrefix[ty] + r.sh,
                     tx |-> tx, ty |-> ty,
                     sx |-> r.sx, sy |-> r.sy, sw |-> r.sw, sh |-> r.sh]]

\* the preparation loop over the chosen files: the index of the first file
\* that cannot be read (Len + 1 if none) and what the passes before it leave.
\* readFileAsDataUrl is awaited outside the inner try: its rejection ends the
\* loop and lands in the outer catch
prepareFiles(fs, maxDim) ==
    LET unreadable == Min({ k \in 1..Len(fs) : fs[k].status = "unreadable" }
                          \cup {Len(fs) + 1})
    IN  [unreadable |-> unreadable, count |-> Len(fs),
         prepared |-> [k \in 1..(unreadable - 1) |-> prepareFile(fs[k], maxDim)]]

isKept(p) == p.reject = "none"
isRejected(p) == p.reject # "none"

\* orderedFiles.map(infoByFile.get).filter(Boolean)
orderInfos(fs, fileInfos, shuffle) ==
    LET orderedFiles == sortFilesByNameWithNumber(fs, shuffle)
        hasInfo(f) == \E k \in 1..Len(fileInfos) : fileInfos[k].file = f.id
        withInfo == SelectSeq(orderedFiles, hasInfo)
    IN  [k \in 1..Len(withInfo) |->
            fileInfos[CHOOSE j \in 1..Len(fileInfos) : fileInfos[j].file = withInfo[k].id]]

hasNumber(info) == extractTrailingNumber(info.name) # null
hasNoNumber(info) == extractTrailingNumber(info.name) = null

\* the doubled centre of the slot of every ordered info
slotCenters(orderedInfos, frm, imagesPerRow, hst) ==
    LET vcx2 == IF hst.viewport.ok THEN 2 * hst.viewport.x + hst.viewport.width ELSE 0
        vcy2 == IF hst.viewport.ok THEN 2 * hst.viewport.y + hst.viewport.height ELSE 0
        n == Len(orderedInfos)
        anySliced == \E k \in 1..n : orderedInfos[k].needsSlice
        numbered == SelectSeq(orderedInfos, hasNumber)
        unnumbered == SelectSeq(orderedInfos, hasNoNumber)
        maxNum == Max({ extractTrailingNumber(numbered[k].name) : k \in 1..Len(numbered) })
        \* files without a number go after maxNum
        tileInfos == [k \in 1..n |->
            IF k <= Len(numbered)
            THEN [info |-> numbered[k], num |-> extractTrailingNumber(numbered[k].name)]
            ELSE [info |-> unnumbered[k - Len(numbered)],
                  num |-> maxNum + (k - Len(numbered))]]
    IN  IF ~anySliced /\ frm.skipMissing /\ numbered # <<>>
        THEN LET slotCentersByFile ==
                    computeSkipMissingSlotCenters(tileInfos, imagesPerRow,
                                                  frm.startCorner, vcx2, vcy2)
             IN  [i \in 1..n |-> slotCentersByFile[orderedInfos[i].file]]
        ELSE computeVariableSlotCenters(orderedInfos, imagesPerRow,
                                        frm.startCorner, vcx2, vcy2)

\* all passes of the creation loop, in order
allCreationSteps(orderedInfos, centers) ==
    LET stepsTo[i \in 0..Len(orderedInfos)] ==
            IF i = 0 THEN <<>>
            ELSE stepsTo[i - 1] \o creationSteps(orderedInfos[i], centers[i])
    IN  stepsTo[Len(orderedInfos)]

isCreate(st) == st.kind = "create"
isSkip(st) == st.kind = "skip"
isSliced(st) == st.sliced

\* what the handler leaves once the form is accepted (lines 762-1127): the
\* widgets created, the rectangles cut, the notifications, the progress
importOutcome(prep, orderedInfos, steps, frm, hst) ==
    LET rejected == SelectSeq(prep.prepared, isRejected)
        prepNotes == [k \in 1..Len(rejected) |->
                         rejectionNote(rejected[k].reject, rejected[k].name)]
        n == Len(orderedInfos)
        anySliced == \E k \in 1..n : orderedInfos[k].needsSlice
        tilesTo[k \in 0..n] ==
            IF k = 0 THEN 0
            ELSE tilesTo[k - 1]
                 + (IF orderedInfos[k].needsSlice THEN orderedInfos[k].numTiles ELSE 1)
        totalTiles == tilesTo[n]
        ignoredNote ==
            IF anySliced /\ frm.skipMissing
            THEN <<Note("info", "Skip missing tiles is ignored for large images")>>
            ELSE <<>>
        createsTo[k \in 0..Len(steps)] ==
            IF k = 0 THEN 0
            ELSE createsTo[k - 1] + (IF steps[k].kind = "create" THEN 1 ELSE 0)
        \* the pass whose board.createImage call the host rejects
        failPos == Min({ k \in 1..Len(steps) :
                            /\ steps[k].kind = "create"
                            /\ createsTo[k] = hst.createFailsAt }
                       \cup {Len(steps) + 1})
        done == SubSeq(steps, 1, failPos - 1)
        reached == SubSeq(steps, 1, Min({failPos, Len(steps)}))
        skipped == SelectSeq(done, isSkip)
        skipNotes == [k \in 1..Len(skipped) |->
            Note("error", "One of the tiles is too large even after compression. Skipped.")]
        failed(made, drawn, ns) ==
            [created |-> made, cut |-> drawn,
             notes |-> ns \o <<Note("error", "Something went wrong while importing images")>>,
             progress |-> [done |-> 0, total |-> 0, label |-> "Error"]]
    IN  IF prep.unreadable <= prep.count
        THEN failed(<<>>, <<>>, prepNotes)
        ELSE IF orderedInfos = <<>> THEN
            [created |-> <<>>, cut |-> <<>>, notes |-> prepNotes,
             progress |-> [done |-> 0, total |-> 0, label |-> "Nothing to import."]]
        ELSE IF failPos <= Len(steps) THEN
            failed(SelectSeq(done, isCreate), SelectSeq(reached, isSliced),
                   prepNotes \o ignoredNote \o skipNotes)
        ELSE
            [created |-> SelectSeq(done, isCreate), cut |-> SelectSeq(reached, isSliced),
             notes |-> prepNotes \o ignoredNote \o skipNotes
                       \o <<Note("info", "Imported source images into tiles")>>,
             progress |-> [done |-> totalTiles, total |-> totalTiles, label |-> "Done!"]]

HandleStitchSubmit ==
    /\ stitchPc = "idle"
    /\ stitchPc' = "done"
    /\ LET imagesPerRow == OrDefault(stitchForm.imagesPerRow, 1)
       IN  IF files = <<>> THEN
               /\ stitchNotes' = Append(stitchNotes,
                      Note("error", "Please select one or more image files"))
               /\ UNCHANGED <<created, cut, progress>>
           ELSE IF imagesPerRow < 1 THEN
               /\ stitchNotes' = Append(stitchNotes,
                      Note("error", "Rows must be greater than 0"))
               /\ UNCHANGED <<created, cut, progress>>
           ELSE
               \E shuffle \in (IF AnyFileHasNumber(files)
                               THEN {[k \in 1..Len(files) |-> k]}
                               ELSE Permutations(1..Len(files))) :
               \E prep \in {prepareFiles(files, MAX_SLICE_DIM)} :
               \E orderedInfos \in
                       {IF prep.unreadable <= Len(files) THEN <<>>
                        ELSE orderInfos(files, SelectSeq(prep.prepared, isKept), shuffle)} :
               \E centers \in {slotCenters(orderedInfos, stitchForm, imagesPerRow, host)} :
               \E steps \in {allCreationSteps(orderedInfos, centers)} :
               \E run \in {importOutcome(prep, orderedInfos, steps, stitchForm, host)} :
                   /\ created' = created \o run.created
                   /\ cut' = cut \o run.cut
                   /\ stitchNotes' = stitchNotes \o run.notes
                   /\ progress' = run.progress
    \* finally: the button is enabled again on every path
    /\ stitchButtonDisabled' = FALSE
    /\ UNCHANGED <<stitchForm, files, host, MAX_SLICE_DIM>>

(***************************************************************************)
(* The upload pipeline of the later version of the import handler          *)
(* (src/unnamed/part_003): tile encoder, create-with-retry, adaptive       *)
(* concurrency, throttled progress.                                        *)
(*                                                                         *)
(* The tile encoder.  Qualities are kept in hundredths (0.85 is 85); each  *)
(* canvas.toDataURL call is one step whose result length is whatever the   *)
(* JPEG encoder of the browser yields.                                     *)
(***************************************************************************)
MAX_URL_BYTES == 29000000
TARGET_URL_BYTES == 4500000
HARD_MIN_Q == 25

tryQualities_TwoLevels == <<85, 80>>

tryQualities == <<85, 82, 80>>

\* the lengths a toDataURL call may yield, around the two limits
UrlLengths == { TARGET_URL_BYTES, TARGET_URL_BYTES + 1, MAX_URL_BYTES, MAX_URL_BYTES + 1 }

\* outputs: the quality and the result length of every canvas.toDataURL call
EncoderState(at, maxBytes, i, quality, length, calls, returned) ==
    [at |-> at, maxBytes |-> maxBytes, i |-> i, quality |-> quality,
     length |-> length, calls |-> calls, returned |-> returned, outputs |-> <<>>]

Encoded(quality, length) == [quality |-> quality, length |-> length]

encoderTarget == Min({encoder.maxBytes, MAX_URL_BYTES})

\* for (const q of tryQualities): return the first result within the target
EncoderTry ==
    /\ encoder.at = "try"
    /\ \E len \in UrlLengths :
        LET out == Encoded(tryQualities[encoder.i], len)
        IN  encoder' =
            IF len <= encoderTarget
            THEN [encoder EXCEPT !.at = "returned", !.quality = tryQualities[encoder.i],
                                 !.length = len, !.calls = @ + 1, !.returned = len,
                                 !.outputs = Append(@, out)]
            ELSE IF encoder.i < Len(tryQualities)
            THEN [encoder EXCEPT !.i = @ + 1, !.quality = tryQualities[encoder.i],
                                 !.length = len, !.calls = @ + 1,
                                 !.outputs = Append(@, out)]
            ELSE [encoder EXCEPT !.at = "keep", !.quality = tryQualities[encoder.i],
                                 !.length = len, !.calls = @ + 1,
                                 !.outputs = Append(@, out)]

\* quality 0.8 once more: kept if within the hard limit, else the loop starts
\* (0.8 > HARD_MIN_Q) or the last resort is taken
EncoderKeep ==
    /\ encoder.at = "keep"
    /\ \E len \in UrlLengths :
        encoder' =
            IF len <= MAX_URL_BYTES
            THEN [encoder EXCEPT !.at = "returned", !.quality = 80, !.length = len,
                                 !.calls = @ + 1, !.returned = len,
                                 !.outputs = Append(@, Encoded(80, len))]
            ELSE [encoder EXCEPT !.at = "lower", !.quality = 80, !.length = len,
                                 !.calls = @ + 1,
                                 !.outputs = Append(@, Encoded(80, len))]

\* one pass of while (dataUrl.length > hardLimit && quality > HARD_MIN_Q)
EncoderLower ==
    /\ encoder.at = "lower"
    /\ \E len \in UrlLengths :
        LET quality == encoder.quality - 5
        IN  encoder' =
                IF len > MAX_URL_BYTES /\ quality > HARD_MIN_Q
                THEN [encoder EXCEPT !.quality = quality, !.length = len, !.calls = @ + 1,
                                     !.outputs = Append(@, Encoded(quality, len))]
                ELSE IF len > MAX_URL_BYTES
                THEN [encoder EXCEPT !.at = "last", !.quality = quality, !.length = len,
                                     !.calls = @ + 1,
                                     !.outputs = Append(@, Encoded(quality, len))]
                ELSE [encoder EXCEPT !.at = "returned", !.quality = quality,
                                     !.length = len, !.calls = @ + 1, !.returned = len,
                                     !.outputs = Append(@, Encoded(quality, len))]

\* the last resort: encode at HARD_MIN_Q and return whatever comes
EncoderLast ==
    /\ encoder.at = "last"
    /\ \E len \in UrlLengths :
        encoder' = [encoder EXCEPT !.at = "returned", !.quality = HARD_MIN_Q,
                                   !.length = len, !.calls = @ + 1, !.returned = len,
                                   !.outputs = Append(@, Encoded(HARD_MIN_Q, len))]

canvasToDataUrlUnderLimit == EncoderTry \/ EncoderKeep \/ EncoderLower \/ EncoderLast

(***************************************************************************)
(* createImageWithRetry.  Each awaited board.createImage call is one step  *)
(* that the host resolves or rejects; the sleep before a retry is a step   *)
(* of its own.  The error of call number n is called n, and so is its      *)
(* result.  Delays are whole milliseconds.                                 *)
(***************************************************************************)
CREATE_IMAGE_MAX_RETRIES == 5
CREATE_IMAGE_BASE_DELAY_MS == 500

\* Math.random() * 250 lies in [0, 250)
Jitters == {0, 1, 125, 249}

Pow2(n) == IF n <= 0 THEN 1 ELSE 2 ^ n

retryBaseDelay_Linear(attempt) == CREATE_IMAGE_BASE_DELAY_MS * attempt

\* CREATE_IMAGE_BASE_DELAY_MS * Math.pow(2, attempt - 1)
retryBaseDelay(attempt) == CREATE_IMAGE_BASE_DELAY_MS * Pow2(attempt - 1)

RetryState(at, attempt, lastErr, outcomes, sleeps, result, thrown) ==
    [at |-> at, attempt |-> attempt, lastErr |-> lastErr, outcomes |-> outcomes,
     sleeps |-> sleeps, result |-> result, thrown |-> thrown]

\* one pass of while (attempt <= CREATE_IMAGE_MAX_RETRIES) up to its await
CreateImageAttempt ==
    /\ retry.at = "call"
    /\ retry.attempt <= CREATE_IMAGE_MAX_RETRIES
    /\ LET call == Len(retry.outcomes) + 1
       IN  \/ retry' = [retry EXCEPT !.at = "returned",
                                     !.outcomes = Append(@, "ok"),
                                     !.result = call]
           \/ LET attempt == retry.attempt + 1
              IN  IF attempt > CREATE_IMAGE_MAX_RETRIES
                  THEN retry' = [retry EXCEPT !.at = "thrown",
                                              !.attempt = attempt,
                                              !.lastErr = call,
                                              !.outcomes = Append(@, "fail"),
                                              !.thrown = call]
                  ELSE \E jitter \in Jitters :
                       retry' = [retry EXCEPT !.at = "sleep",
                                              !.attempt = attempt,
                                              !.lastErr = call,
                                              !.outcomes = Append(@, "fail"),
                                              !.sleeps = Append(@, retryBaseDelay(attempt) + jitter)]

\* the timer of sleep(base + jitter) fires
RetrySleepDone ==
    /\ retry.at = "sleep"
    /\ retry' = [retry EXCEPT !.at = "call"]

createImageWithRetry == CreateImageAttempt \/ RetrySleepDone

(***************************************************************************)
(* runWithAdaptiveConcurrency.  One step is one pass of its while loop:    *)
(* the batch is run, measured and the concurrency of the next batch is     *)
(* decided.  Throughput is an exact fraction [n, d] of MB per second.      *)
(***************************************************************************)
UPLOAD_CONCURRENCY_SMALL == 3
UPLOAD_CONCURRENCY_MIN == 2
UPLOAD_CONCURRENCY_MAX == 6
UPLOAD_CONCURRENCY_INITIAL_LARGE == 4
PROBE_BATCHES == 2

RECURSIVE GCD(_, _)
GCD(a, b) == IF b = 0 THEN a ELSE GCD(b, a % b)

Frac(n, d) == LET g == GCD(n, d) IN [n |-> n \div g, d |-> d \div g]

\* EWMA_ALPHA * mbps + (1 - EWMA_ALPHA) * tpEwmaMbps with EWMA_ALPHA = 0.25
Ewma(mbps, tp) ==
    LET g == GCD(mbps.d, tp.d)
    IN  Frac(mbps.n * (tp.d \div g) + 3 * tp.n * (mbps.d \div g),
             4 * (mbps.d \div g) * tp.d)

GainBelowThreshold_NoMargin(tp, base) ==
    IF base.n = 0 THEN tp.n = 0
    ELSE LET g == GCD(tp.d, base.d)
         IN  tp.n * (base.d \div g) < base.n * (tp.d \div g)

\* tpEwmaMbps / Math.max(1e-9, baseTpMbps) < GAIN_THRESHOLD, GAIN_THRESHOLD = 1.12
GainBelowThreshold(tp, base) ==
    IF base.n = 0 THEN tp.n = 0
    ELSE LET g == GCD(tp.d, base.d)
         IN  25 * tp.n * (base.d \div g) < 28 * base.n * (tp.d \div g)

NoProbe == [on |-> FALSE, baseConc |-> 0, baseTpMbps |-> Frac(0, 1), batchesAtProbe |-> 0]

\* runWithConcurrency with runners that each take latency ms per item: the
\* batch lasts as long as the runner that takes the most items
batchWallTime(batchSize, concurrency, latency) == CeilDiv(batchSize, concurrency) * latency

\* what the worker makes of a batch: the possible (dtMs, retries, bytesDelta)
BatchMeasures(worker, batchSize, concurrency) ==
    { [dtMs |-> batchWallTime(batchSize, concurrency, worker.latency) + extra,
       retries |-> retries,
       bytesDelta |-> batchSize * worker.bytes] :
        extra \in worker.backoff,
        retries \in { (r * batchSize) \div 100 + more : r \in worker.retryRates,
                                                      more \in worker.retryMore } }

SchedState_Unclamped(at, items, worker, initialConcurrency, minConcurrency, maxConcurrency) ==
    [at |-> at, items |-> items, worker |-> worker,
     initialConcurrency |-> initialConcurrency,
     minConcurrency |-> minConcurrency, maxConcurrency |-> maxConcurrency,
     concurrency |-> initialConcurrency,
     lockedMax |-> maxConcurrency,
     idx |-> 0, hasTp |-> FALSE, tpEwmaMbps |-> Frac(0, 1), probe |-> NoProbe,
     cooldownBatches |-> 0, batches |-> 0, action |-> "none",
     \* the batch behind the last entry of concurrencyDecisions
     last |-> [batchSize |-> 0, dtMs |-> 0, retries |-> 0]]

SchedState(at, items, worker, initialConcurrency, minConcurrency, maxConcurrency) ==
    [at |-> at, items |-> items, worker |-> worker,
     initialConcurrency |-> initialConcurrency,
     minConcurrency |-> minConcurrency, maxConcurrency |-> maxConcurrency,
     concurrency |-> Max({minConcurrency, Min({maxConcurrency, initialConcurrency})}),
     lockedMax |-> maxConcurrency,
     idx |-> 0, hasTp |-> FALSE, tpEwmaMbps |-> Frac(0, 1), probe |-> NoProbe,
     cooldownBatches |-> 0, batches |-> 0, action |-> "none",
     \* the batch behind the last entry of concurrencyDecisions
     last |-> [batchSize |-> 0, dtMs |-> 0, retries |-> 0]]

isUnstable_SlowOnly(m, perItem) == m.dtMs > 15000 * perItem

\* retriesPerItem > 0.35 || msPerItem > 15000
isUnstable(m, perItem) == m.retries * 100 > 35 * perItem \/ m.dtMs > 15000 * perItem

\* retriesPerItem < 0.08 && msPerItem < 9000
isStable(m, perItem) == m.retries * 100 < 8 * perItem /\ m.dtMs < 9000 * perItem

\* the state after the decision of one pass, given what the batch measured
adaptiveDecision(st, batchSize, m) ==
    LET dtSec1000 == Max({1, m.dtMs})
        mbps == Frac(m.bytesDelta, 1000 * dtSec1000)
        tp == IF st.hasTp THEN Ewma(mbps, st.tpEwmaMbps) ELSE mbps
        perItem == Max({1, batchSize})
        unstable == isUnstable(m, perItem)
        stable == isStable(m, perItem)
        cooldown == IF st.cooldownBatches > 0 THEN st.cooldownBatches - 1
                    ELSE st.cooldownBatches
        measured == [st EXCEPT !.hasTp = TRUE, !.tpEwmaMbps = tp,
                               !.last = [batchSize |-> batchSize, dtMs |-> m.dtMs,
                                         retries |-> m.retries],
                               !.cooldownBatches = cooldown,
                               !.idx = @ + batchSize, !.batches = @ + 1,
                               !.at = IF st.idx + batchSize < st.items THEN "run" ELSE "done"]
    IN  IF unstable /\ st.concurrency > st.minConcurrency THEN
            [measured EXCEPT !.concurrency = st.concurrency - 1,
                             !.lockedMax = Min({st.lockedMax, st.concurrency - 1}),
                             !.probe = NoProbe, !.cooldownBatches = 1, !.action = "down"]
        ELSE IF st.probe.on /\ st.concurrency = st.probe.baseConc + 1 THEN
            IF st.probe.batchesAtProbe + 1 >= PROBE_BATCHES THEN
                IF GainBelowThreshold(tp, st.probe.baseTpMbps)
                THEN [measured EXCEPT !.lockedMax = st.probe.baseConc,
                                      !.concurrency = st.probe.baseConc,
                                      !.probe = NoProbe, !.cooldownBatches = 1,
                                      !.action = "cap"]
                ELSE [measured EXCEPT !.probe = NoProbe, !.cooldownBatches = 1,
                                      !.action = "accept"]
            ELSE [measured EXCEPT !.probe.batchesAtProbe = @ + 1, !.action = "keep"]
        ELSE IF ~st.probe.on /\ stable /\ cooldown = 0 /\ st.concurrency < st.lockedMax THEN
            [measured EXCEPT !.probe = [on |-> TRUE, baseConc |-> st.concurrency,
                                        baseTpMbps |-> tp, batchesAtProbe |-> 0],
                             !.concurrency = st.concurrency + 1,
                             !.cooldownBatches = 1, !.action = "up"]
        ELSE [measured EXCEPT !.action = "keep"]

\* the number of passes that are followed
MaxBatches == 12

\* one pass of while (idx < items.length)
AdaptiveBatch ==
    /\ sched.at = "run"
    /\ sched.idx < sched.items
    /\ sched.batches < MaxBatches
    /\ LET batchSize == Min({sched.items - sched.idx, Max({sched.concurrency * 2, 4})})
       IN  \E m \in BatchMeasures(sched.worker, batchSize, sched.concurrency) :
               sched' = adaptiveDecision(sched, batchSize, m)

(***************************************************************************)
(* The upload stage of the later import handler: runWithAdaptiveConcurrency *)
(* hands batches to runWithConcurrency, whose runners share one cursor and *)
(* await processOneInfo for one info after the other.  An info is a file   *)
(* that needs no slicing: its processOneInfo awaits one                    *)
(* createImageWithRetry, which either returns the widget or throws after   *)
(* its last retry.  One step is one turn of a runner's loop or the         *)
(* resolution of what it awaits.                                           *)
(***************************************************************************)
Runner(st, item, index) == [st |-> st, item |-> item, index |-> index]

Widget(info, slot) == [info |-> info, slot |-> slot]

\* batch = items.slice(idx, idx + batchSize) run by `concurrency` runners
startBatch(u, concurrency) ==
    [u EXCEPT !.concurrency = concurrency,
              !.batchLen = Min({u.items - u.idx, Max({concurrency * 2, 4})}),
              !.cursor = 0,
              !.runners = [r \in 1..concurrency |-> Runner("ready", 0, 0)]]

\* items: the number of ordered infos, info k being orderedInfos[k - 1];
\* started: the task indices handed to processOneInfo, in the order of the
\* calls; made: the widgets created, in the order the calls returned;
\* createCalls: the createImageWithRetry calls issued
UploadState(at, items, failing, initialConcurrency, minConcurrency, maxConcurrency) ==
    startBatch([at |-> at, items |-> items, failing |-> failing,
                minConcurrency |-> minConcurrency, maxConcurrency |-> maxConcurrency,
                idx |-> 0, concurrency |-> 0, batchLen |-> 0, cursor |-> 0,
                runners |-> <<>>, started |-> <<>>, made |-> <<>>, createCalls |-> 0,
                notes |-> <<>>, progressLabel |-> "", progressUpdates |-> 0,
                buttonDisabled |-> at # "off"],
               Max({minConcurrency, Min({maxConcurrency, initialConcurrency})}))

taskIndex_Local(idx, localI) == localI

\* await worker(item, idx + localI): the index processOneInfo is called with
taskIndex(idx, localI) == idx + localI

\* const i = cursor; cursor += 1; if (i >= items.length) break;
\* await worker(items[i], i): processOneInfo(info, idx + i) runs up to its
\* await of createImageWithRetry (nothing on the way looks at what the other
\* runners or the handler have done)
RunnerTake(r) ==
    /\ upload.at # "off"
    /\ r \in 1..Len(upload.runners)
    /\ upload.runners[r].st = "ready"
    /\ IF upload.cursor >= upload.batchLen
       THEN upload' = [upload EXCEPT !.cursor = @ + 1,
                                     !.runners[r] = Runner("ended", 0, 0)]
       ELSE LET index == taskIndex(upload.idx, upload.cursor)
            IN  upload' = [upload EXCEPT
                    !.cursor = @ + 1,
                    \* batch[i] is items[idx + i]
                    !.runners[r] = Runner("busy", upload.idx + upload.cursor + 1, index),
                    !.started = Append(@, index),
                    !.createCalls = @ + 1]

\* what the handler's catch and finally blocks leave
handlerCatch(u) ==
    [u EXCEPT !.at = "failed",
              !.notes = Append(@, Note("error",
                            "Something went wrong while importing images")),
              !.progressLabel = "Error",
              !.buttonDisabled = FALSE]

\* the awaited processOneInfo settles.  A throw of createImageWithRetry is
\* caught nowhere in processOneInfo, the runner or the batch loop: the
\* runner's promise rejects, Promise.all rejects with it, and the first
\* rejection reaches the catch of the handler; the other runners run on.
\* On success the widget sits at slotCentersArray[i] and
\* updateCreationProgress() is called
RunnerWorkerSettles(r) ==
    /\ r \in 1..Len(upload.runners)
    /\ upload.runners[r].st = "busy"
    /\ LET item == upload.runners[r].item
           index == upload.runners[r].index
       IN  IF item \in upload.failing
           THEN upload' = [(IF upload.at = "run" THEN handlerCatch(upload) ELSE upload)
                               EXCEPT !.runners[r] = Runner("threw", item, index)]
           ELSE upload' = [upload EXCEPT !.made = Append(@, Widget(item, index)),
                                         !.progressLabel = "Uploading to board",
                                         !.progressUpdates = @ + 1,
                                         !.runners[r] = Runner("ready", 0, 0)]

UploadBatchEnd_AnyRunnerEnded ==
    /\ upload.at = "run"
    /\ \E r \in 1..Len(upload.runners) : upload.runners[r].st = "ended"
    /\ LET after == [upload EXCEPT !.idx = @ + upload.batchLen]
       IN  IF after.idx < after.items
           THEN \E concurrency \in { c \in (upload.concurrency - 1)..(upload.concurrency + 1) :
                                        /\ c >= upload.minConcurrency
                                        /\ c <= upload.maxConcurrency } :
                    upload' = startBatch(after, concurrency)
           ELSE upload' = [after EXCEPT !.at = "done",
                                        !.notes = Append(@, Note("info",
                                            "Imported source images into tiles")),
                                        !.progressUpdates = @ + 1,
                                        !.buttonDisabled = FALSE]

\* Promise.all(runners) resolves: the pass of the while loop ends, and the
\* next batch runs with the concurrency the adaptive decision leaves (one
\* less, the same or one more, within the limits); after the last batch
\* come setProgress(totalTiles, totalTiles), the success notification and
\* the finally block
UploadBatchEnd ==
    /\ upload.at = "run"
    /\ \A r \in 1..Len(upload.runners) : upload.runners[r].st = "ended"
    /\ LET after == [upload EXCEPT !.idx = @ + upload.batchLen]
       IN  IF after.idx < after.items
           THEN \E concurrency \in { c \in (upload.concurrency - 1)..(upload.concurrency + 1) :
                                        /\ c >= upload.minConcurrency
                                        /\ c <= upload.maxConcurrency } :
                    upload' = startBatch(after, concurrency)
           ELSE upload' = [after EXCEPT !.at = "done",
                                        !.notes = Append(@, Note("info",
                                            "Imported source images into tiles")),
                                        !.progressUpdates = @ + 1,
                                        !.buttonDisabled = FALSE]

runWithConcurrency ==
    \E r \in 1..UPLOAD_CONCURRENCY_MAX : RunnerTake(r) \/ RunnerWorkerSettles(r)


(***************************************************************************)
(* makeThrottled(fn, intervalMs).  now is what performance.now() returns;  *)
(* timer is the time the pending setTimeout is due (null if there is       *)
(* none), and its callback runs at that time or later, when the event loop *)
(* gets to it.  invocations lists the calls of fn: when, and from where.   *)
(***************************************************************************)
ThrottleState(at, intervalMs) ==
    [at |-> at, intervalMs |-> intervalMs, now |-> 0,
     lastCall |-> 0, timer |-> null, lastArgs |-> null, invocations |-> <<>>]

Invocation(t, via, args) == [t |-> t, via |-> via, args |-> args]

\* the number of calls of fn that are followed
MaxInvocations == 3
\* the last clock value that is followed, and the steps of the clock
MaxTime == 600
ClockSteps == {50, 100}

\* time passes
ThrottleTick ==
    /\ throttle.at = "on"
    /\ \E d \in ClockSteps :
        /\ throttle.now + d <= MaxTime
        /\ throttle' = [throttle EXCEPT !.now = @ + d]

\* throttled(...args)
ThrottledCall(args) ==
    /\ throttle.at = "on"
    /\ Len(throttle.invocations) < MaxInvocations
    /\ LET elapsed == throttle.now - throttle.lastCall
           withArgs == [throttle EXCEPT !.lastArgs = args]
       IN  IF elapsed >= throttle.intervalMs THEN
               throttle' = [withArgs EXCEPT
                   !.lastCall = throttle.now,
                   !.invocations = Append(@, Invocation(throttle.now, "call", args))]
           ELSE IF throttle.timer # null THEN throttle' = withArgs
           ELSE throttle' = [withArgs EXCEPT
                   !.timer = throttle.now + Max({0, throttle.intervalMs - elapsed})]

\* the setTimeout callback
ThrottleTimerFires ==
    /\ throttle.at = "on"
    /\ throttle.timer # null
    /\ throttle.now >= throttle.timer
    /\ Len(throttle.invocations) < MaxInvocations
    /\ throttle' = [throttle EXCEPT
           !.timer = null,
           !.lastCall = throttle.now,
           !.invocations = Append(@, Invocation(throttle.now, "timer", throttle.lastArgs))]

\* throttled.flush()
ThrottleFlush ==
    /\ throttle.at = "on"
    /\ Len(throttle.invocations) < MaxInvocations
    /\ IF throttle.lastArgs # null
       THEN throttle' = [throttle EXCEPT
               !.timer = null,
               !.lastCall = throttle.now,
               !.invocations = Append(@, Invocation(throttle.now, "flush", throttle.lastArgs))]
       ELSE throttle' = [throttle EXCEPT !.timer = null]

makeThrottled ==
    \/ ThrottleTick
    \/ \E args \in 1..2 : ThrottledCall(args)
    \/ ThrottleTimerFires
    \/ ThrottleFlush

(***************************************************************************)
(* sortImagesByNumber, await by await.  input is the array it is called    *)
(* with, images its local variable (the renamed geometry order once the    *)
(* titles are assigned); syncs[id] is the state of the img.sync() promise  *)
(* of item id, and syncsAtKeys what syncs was when the keys were read.     *)
(***************************************************************************)
NumberSortState(at, input) ==
    [at |-> at, input |-> input, images |-> input,
     syncs |-> [k \in 1..Len(input) |-> "none"],
     syncsAtKeys |-> <<>>, result |-> <<>>]

ItemIds(images) == [k \in 1..Len(images) |-> images[k].id]

\* the meta, sort and return of sortImagesByNumber (lines 288-316)
numberSortReturn(st) ==
    [st EXCEPT !.at = "returned", !.syncsAtKeys = st.syncs,
               !.result = ItemIds(sortImagesByNumber(st.images))]

\* the call up to its first await (or to its return, when nothing is renamed)
NumberSortCall ==
    /\ numberSort.at = "called"
    /\ IF \E i \in 1..Len(numberSort.input) : getTitle(numberSort.input[i]) = <<>>
       THEN numberSort' = [numberSort EXCEPT
               !.at = "awaiting",
               !.images = renameByGeometry(numberSort.input),
               !.syncs = [k \in 1..Len(numberSort.input) |-> "pending"]]
       ELSE numberSort' = numberSortReturn(numberSort)

\* the host settles one img.sync()
SyncSettles ==
    \E id \in 1..Len(numberSort.syncs), outcome \in {"ok", "failed"} :
        /\ numberSort.syncs[id] = "pending"
        /\ numberSort' = [numberSort EXCEPT !.syncs[id] = outcome]

\* await Promise.all(geoOrder.map((img) => img.sync())) settles
NumberSortResume ==
    /\ numberSort.at = "awaiting"
    /\ \/ /\ \E id \in 1..Len(numberSort.syncs) : numberSort.syncs[id] = "failed"
          /\ numberSort' = [numberSort EXCEPT !.at = "thrown"]
       \/ /\ \A id \in 1..Len(numberSort.syncs) : numberSort.syncs[id] = "ok"
          /\ numberSort' = numberSortReturn(numberSort)

\* one more call of sortFilesByNameWithNumber on the chosen files
SortFilesCall ==
    /\ Len(orderings) < 2
    /\ \E shuffle \in (IF AnyFileHasNumber(files)
                       THEN {[k \in 1..Len(files) |-> k]}
                       ELSE Permutations(1..Len(files))) :
        orderings' = Append(orderings, ItemIds(sortFilesByNameWithNumber(files, shuffle)))

(***************************************************************************)
(* Initial states                                                          *)
(***************************************************************************)
unset == 0 - 2

IdleKey == str = <<>> /\ num = unset

IdleSorting ==
    /\ form = [imagesPerRow |-> NaNValue, horizontalGap |-> NaNValue,
               verticalGap |-> NaNValue, sizeMode |-> "none",
               startCorner |-> "top-left", sortMode |-> "number"]
    /\ board = <<>> /\ before = <<>> /\ ordered = <<>> /\ preMove = <<>>
    /\ notes = <<>> /\ pc = "off"

IdleEncoder == encoder = EncoderState("off", 0, 0, 0, 0, 0, null)

IdleRetry == retry = RetryState("off", 0, null, <<>>, <<>>, null, null)

Worker(latency, bytes, backoff, retryRates, retryMore) ==
    [latency |-> latency, bytes |-> bytes, backoff |-> backoff,
     retryRates |-> retryRates, retryMore |-> retryMore]

IdleSched == sched = SchedState("off", 0, Worker(0, 0, {}, {}, {}), 0, 0, 0)

(***************************************************************************)
(* The final import handler: the statements of its try block that decide   *)
(* where it ends, its catch and its finally                                *)
(***************************************************************************)
\* the let bindings of the try block that the statements below touch
BlockBindings == {"uploadStartTs", "prepStartTs", "prepEndTs", "uploadEndTs"}

Statement(op, names) == [op |-> op, names |-> names]

\* in program order; "use" reads or assigns the named bindings, "let" is
\* their declaration in the same block
TryBlock ==
    << Statement("use", {"prepStartTs"}),               \* prepStartTs = performance.now()
       Statement("checkFiles", {}),
       Statement("checkColumns", {}),
       Statement("disableButton", {}),
       Statement("use", {"uploadEndTs"}),               \* uploadEndTs = performance.now()
       Statement("use", {"prepEndTs", "uploadEndTs"}),  \* if (!prepEndTs) prepEndTs = uploadEndTs
       Statement("use", {"prepStartTs"}),               \* startPrepEta()
       Statement("prepare", {}),
       Statement("let", BlockBindings),
       Statement("use", {"prepEndTs"}),                 \* prepEndTs = performance.now()
       Statement("use", {"uploadStartTs"}),             \* setStage(2); startEta()
       Statement("upload", {}),
       Statement("success", {}) >>

\* tiles: the number of tiles each chosen file is cut into; live: the
\* bindings of the try block whose declaration has run
FinalState(at, tiles, imagesPerRow) ==
    [at |-> at, pos |-> 1, live |-> {}, tiles |-> tiles, imagesPerRow |-> imagesPerRow,
     totalTiles |-> 0, stage |-> 1, createCalls |-> 0, notes |-> <<>>,
     progressLabel |-> "", buttonDisabled |-> FALSE]

IdleFinal == final = FinalState("off", <<>>, 0)

\* orderedInfos.reduce((sum, info) => sum + tiles of info, 0)
RECURSIVE countTiles(_)
countTiles(tiles) ==
    IF tiles = <<>> THEN 0 ELSE Head(tiles) + countTiles(Tail(tiles))

\* a binding declared by let further down the block is in its temporal dead
\* zone: reading it or assigning to it throws a ReferenceError
execStatement(f, s) ==
    LET next == [f EXCEPT !.pos = @ + 1]
    IN  CASE s.op = "use" ->
                IF s.names \subseteq f.live THEN next ELSE [f EXCEPT !.at = "catch"]
          [] s.op = "let" -> [next EXCEPT !.live = @ \cup s.names]
          [] s.op = "checkFiles" ->
                IF f.tiles = <<>>
                THEN [f EXCEPT !.at = "finally",
                               !.notes = Append(@, Note("error",
                                    "Please select one or more image files."))]
                ELSE next
          [] s.op = "checkColumns" ->
                IF f.imagesPerRow < 1
                THEN [f EXCEPT !.at = "finally",
                               !.notes = Append(@, Note("error",
                                    "Rows must be greater than 0."))]
                ELSE next
          [] s.op = "disableButton" ->
                [next EXCEPT !.buttonDisabled = TRUE, !.progressLabel = ""]
          [] s.op = "prepare" -> [next EXCEPT !.totalTiles = countTiles(f.tiles)]
          \* every call of the host succeeds: one createImage call per tile
          [] s.op = "upload" ->
                [next EXCEPT !.stage = 2,
                             !.createCalls = @ + f.totalTiles,
                             !.progressLabel = "Uploading to board"]
          [] s.op = "success" ->
                [f EXCEPT !.at = "finally",
                          !.notes = Append(@, Note("info",
                                "Imported source images into tiles"))]

\* the submit event: everything before the try block
FinalSubmit ==
    /\ final.at = "idle"
    /\ final' = [final EXCEPT !.at = "try"]

FinalStatement ==
    /\ final.at = "try"
    /\ final.pos <= Len(TryBlock)
    /\ final' = execStatement(final, TryBlock[final.pos])

FinalCatch ==
    /\ final.at = "catch"
    /\ final' = [final EXCEPT !.at = "finally",
                              !.progressLabel = "Error",
                              !.notes = Append(@, Note("error",
                                    "Something went wrong while importing images"))]

FinalFinally ==
    /\ final.at = "finally"
    /\ final' = [final EXCEPT !.at = "returned", !.buttonDisabled = FALSE]

IdleOrderings == orderings = <<>>

IdleNumberSort == numberSort = NumberSortState("off", <<>>)

IdleThrottle == throttle = ThrottleState("off", 0)

IdleRunners == upload = UploadState("off", 0, {}, 0, 0, 0)

IdleUpload ==
    /\ IdleEncoder /\ IdleRetry /\ IdleSched /\ IdleRunners /\ IdleThrottle
    /\ IdleOrderings /\ IdleNumberSort /\ IdleFinal

\* every part of the upload pipeline but the named one is not in use
IdleUploadExcept(part) ==
    /\ IF part = "encoder" THEN TRUE ELSE IdleEncoder
    /\ IF part = "retry" THEN TRUE ELSE IdleRetry
    /\ IF part = "sched" THEN TRUE ELSE IdleSched
    /\ IF part = "upload" THEN TRUE ELSE IdleRunners
    /\ IF part = "throttle" THEN TRUE ELSE IdleThrottle
    /\ IF part = "orderings" THEN TRUE ELSE IdleOrderings
    /\ IF part = "numberSort" THEN TRUE ELSE IdleNumberSort
    /\ IF part = "final" THEN TRUE ELSE IdleFinal

UnchangedUploadExcept(part) ==
    /\ IF part = "encoder" THEN TRUE ELSE UNCHANGED encoder
    /\ IF part = "retry" THEN TRUE ELSE UNCHANGED retry
    /\ IF part = "sched" THEN TRUE ELSE UNCHANGED sched
    /\ IF part = "upload" THEN TRUE ELSE UNCHANGED upload
    /\ IF part = "throttle" THEN TRUE ELSE UNCHANGED throttle
    /\ IF part = "orderings" THEN TRUE ELSE UNCHANGED orderings
    /\ IF part = "numberSort" THEN TRUE ELSE UNCHANGED numberSort
    /\ IF part = "final" THEN TRUE ELSE UNCHANGED final


Viewport(ok, x, y, w, h) == [ok |-> ok, x |-> x, y |-> y, width |-> w, height |-> h]

IdleImport ==
    /\ stitchForm = [imagesPerRow |-> NaNValue, startCorner |-> "top-left",
                     skipMissing |-> FALSE]
    /\ files = <<>>
    /\ host = [viewport |-> Viewport(FALSE, 0, 0, 0, 0), createFailsAt |-> 0]
    /\ MAX_SLICE_DIM = 16384
    /\ created = <<>> /\ cut = <<>> /\ stitchNotes = <<>>
    /\ progress = [done |-> 0, total |-> 0, label |-> ""]
    /\ stitchButtonDisabled = FALSE
    /\ stitchPc = "off"

IdleBase == IdleKey /\ IdleSorting /\ IdleImport

UnchangedBase == UNCHANGED keyVars /\ UNCHANGED sortingVars /\ UNCHANGED importVars

Item(id, type, title, x, y, w, h) ==
    [id |-> id, type |-> type, title |-> title, x |-> x, y |-> y,
     width |-> w, height |-> h]

Corners == {"top-left", "top-right", "bottom-left", "bottom-right"}
SizeModes == {"none", "width", "height"}

\* the sorting handler about to run on a selection under a form
SortingStart(items, f) ==
    /\ form = f
    /\ board = items
    /\ before = items
    /\ ordered = <<>>
    /\ preMove = <<>>
    /\ notes = <<>>
    /\ pc = "idle"

(***************************************************************************)
(* The import handler                                                      *)
(***************************************************************************)
NextImport ==
    HandleStitchSubmit /\ UNCHANGED keyVars /\ UNCHANGED sortingVars /\ UNCHANGED uploadVars

Analysis(ok, satCodeRaw, briCodeRaw) ==
    [ok |-> ok, satCodeRaw |-> satCodeRaw, briCodeRaw |-> briCodeRaw]

File(id, name, status, w, h, analysis, hardTiles) ==
    [id |-> id, name |-> name, status |-> status, width |-> w, height |-> h,
     analysis |-> analysis, hardTiles |-> hardTiles]

\* the import handler about to run on the chosen files
ImportStart(fs, f, h, maxDim) ==
    /\ stitchForm = f
    /\ files = fs
    /\ host = h
    /\ MAX_SLICE_DIM = maxDim
    /\ created = <<>> /\ cut = <<>> /\ stitchNotes = <<>>
    /\ progress = [done |-> 0, total |-> 0, label |-> ""]
    /\ stitchButtonDisabled = FALSE
    /\ stitchPc = "idle"

StitchForm(imagesPerRow, startCorner, skipMissing) ==
    [imagesPerRow |-> NumberValue(imagesPerRow), startCorner |-> startCorner,
     skipMissing |-> skipMissing]

Host(viewport, createFailsAt) == [viewport |-> viewport, createFailsAt |-> createFailsAt]

FileById(id) == files[CHOOSE k \in 1..Len(files) : files[k].id = id]

(***************************************************************************)
(* Specification SpecKey: extractTrailingNumber applied to every string    *)
(* over KeyAlphabet of length up to MaxStrLen                              *)
(***************************************************************************)
KeyAlphabet == {"a", "0", "1", "2", "\n"}

InitKey ==
    /\ IdleUpload
    /\ str \in StringsUpTo(KeyAlphabet, MaxStrLen)
    /\ num = unset
    /\ IdleSorting
    /\ IdleImport

ExtractTrailingNumber ==
    /\ num = unset
    /\ num' = extractTrailingNumber(str)
    /\ UNCHANGED str
    /\ UNCHANGED sortingVars
    /\ UNCHANGED importVars
    /\ UNCHANGED uploadVars

NextKey == ExtractTrailingNumber

SpecKey == InitKey /\ [][NextKey]_vars

\* ---- what the documentation says the function returns ----
HasDigit(s) == \E k \in 1..Len(s) : IsDigit(s[k])
LastDigitPos(s) == Max({ k \in 1..Len(s) : IsDigit(s[k]) })
\* first position of the maximal digit run that ends at position e
RunStart(s, e) == Min({ p \in 1..e : \A k \in p..e : IsDigit(s[k]) })
LastRunValue(s) ==
    parseInt(SubSeq(s, RunStart(s, LastDigitPos(s)), LastDigitPos(s)))

\* C1: for every string, extractTrailingNumber returns the value of the last
\* maximal run of decimal digits of the string, and null exactly when the
\* string contains no digit.
C1_LastDigitRun ==
    num # unset =>
        /\ (num = null) <=> ~HasDigit(str)
        /\ HasDigit(str) => num = LastRunValue(str)

(***************************************************************************)
(* Specifications of the sorting handler.  They share the one action and   *)
(* differ in the selections and form values they start from.               *)
(***************************************************************************)
NextSorting ==
    HandleSortingSubmit /\ UNCHANGED keyVars /\ UNCHANGED importVars /\ UNCHANGED uploadVars

\* where the k-th selected item lies, in four arrangements: all on one spot,
\* left to right, bottom to top, and two alternating spots
PositionLayouts == 1..4
PositionX(layout, k) ==
    CASE layout = 1 -> 0
      [] layout = 2 -> 150 * k
      [] layout = 3 -> 0
      [] layout = 4 -> 150 * (k % 2)
PositionY(layout, k) ==
    CASE layout = 1 -> 0
      [] layout = 2 -> 0
      [] layout = 3 -> 0 - 300 * k
      [] layout = 4 -> 300 * ((k + 1) % 2)

\* n square images with the given titles
TitledImages(titles, layout) ==
    [k \in 1..Len(titles) |->
        Item(k, "image", titles[k], PositionX(layout, k), PositionY(layout, k),
             100, 100)]

DefaultForm(sortMode) ==
    [imagesPerRow |-> NumberValue(2), horizontalGap |-> NumberValue(10),
     verticalGap |-> NumberValue(10), sizeMode |-> "none",
     startCorner |-> "top-left", sortMode |-> sortMode]

NumberTitles ==
    { <<>>, <<"a", "1">>, <<"A", "1">>, <<"b", "1">>, <<"a", "0", "2">>,
      <<"b">>, <<"B">> }

InitSortNumber ==
    /\ IdleUpload
    /\ IdleKey
    /\ IdleImport
    /\ \E n \in 1..MaxItems : \E titles \in [1..n -> NumberTitles] :
       \E layout \in PositionLayouts :
          SortingStart(TitledImages(titles, layout), DefaultForm("number"))

SpecSortNumber == InitSortNumber /\ [][NextSorting]_vars

\* ---- the order sortImagesByNumber is documented to produce ----
DoneSorted == pc = "done" /\ ordered # <<>>

NoEmptyTitle(items) == \A k \in 1..Len(items) : getTitle(items[k]) # <<>>

IsPermutationOfIds(ids, items) ==
    /\ Len(ids) = Len(items)
    /\ \A k \in 1..Len(items) : \E p \in 1..Len(ids) : ids[p] = items[k].id
    /\ \A p, q \in 1..Len(ids) : p # q => ids[p] # ids[q]

\* the position of the item with this id in the input list
InputIndex(items, id) == CHOOSE k \in 1..Len(items) : items[k].id = id

NumericKey(item) == extractTrailingNumber(getTitle(item))
LowerTitle(item) == toLowerCase(getTitle(item))

\* item a of input index ia must come before item b of input index ib
NumberOrderPrecedes(a, ia, b, ib) ==
    LET ka == NumericKey(a)
        kb == NumericKey(b)
        byTitle == \/ StrLess(LowerTitle(a), LowerTitle(b))
                   \/ LowerTitle(a) = LowerTitle(b) /\ ia < ib
    IN  \/ ka # null /\ kb = null
        \/ ka # null /\ kb # null /\ ka < kb
        \/ ka # null /\ kb # null /\ ka = kb /\ byTitle
        \/ ka = null /\ kb = null /\ byTitle

\* C2: when every selected image has a non-empty title, sortImagesByNumber
\* returns a permutation of its input in which every image with a numeric
\* key precedes every image without one, keyed images ascend by number, then
\* by lower-cased title, then by input order, and images without a key are
\* ordered by lower-cased title, then by input order.
C2_NumberOrder ==
    (DoneSorted /\ form.sortMode = "number" /\ NoEmptyTitle(before)) =>
        /\ IsPermutationOfIds(ordered, before)
        /\ \A p, q \in 1..Len(ordered) : p < q =>
              NumberOrderPrecedes(ItemById(before, ordered[p]),
                                  InputIndex(before, ordered[p]),
                                  ItemById(before, ordered[q]),
                                  InputIndex(before, ordered[q]))

\* a selection of three titled images was reordered: two share the number
\* and differ in title, and one has no number
C2_Witness ==
    /\ DoneSorted /\ form.sortMode = "number" /\ NoEmptyTitle(before)
    /\ Len(before) = 3
    /\ ordered = <<3, 2, 1>>
    /\ NumericKey(before[1]) = null
    /\ NumericKey(before[2]) = NumericKey(before[3])
    /\ LowerTitle(before[2]) # LowerTitle(before[3])

\* C3: sortImagesByNumber is idempotent: applied to its own output (the
\* images in the order it returned, with the titles it left them) it
\* returns the same sequence, also when the renaming pre-step ran.
C3_NumberSortIdempotent ==
    (DoneSorted /\ form.sortMode = "number" /\ form.sizeMode = "none") =>
        sortImagesByNumber(preMove) = preMove

\* the renaming pre-step ran and the returned order differs from the input
C3_Witness ==
    /\ DoneSorted /\ form.sortMode = "number" /\ form.sizeMode = "none"
    /\ ~NoEmptyTitle(before)
    /\ Len(before) = 3
    /\ getTitle(before[1]) = <<>>
    /\ getTitle(before[2]) # <<>>
    /\ ordered = <<3, 2, 1>>

(***************************************************************************)
(* SpecSortColor: the handler in colour mode                               *)
(***************************************************************************)
ColorTitles ==
    { colorTitle(35, 10, <<"a">>), colorTitle(36, 5, <<"a">>),
      colorTitle(0, 10, <<"a">>), colorTitle(20, 5, <<"b">>),
      <<"C", "9", "9", "/", "0", "0", "0", "\t", "b">>,
      <<"C", "3", "5", "/", "0", "1", "0">>,
      <<"c", "3", "5", "/", "0", "1", "0", " ", "a">>,
      <<>> }

InitSortColor ==
    /\ IdleUpload
    /\ IdleKey
    /\ IdleImport
    /\ \E n \in 1..MaxItems : \E titles \in [1..n -> ColorTitles] :
       \E layout \in PositionLayouts :
          SortingStart(TitledImages(titles, layout), DefaultForm("color"))

SpecSortColor == InitSortColor /\ [][NextSorting]_vars

\* the colour prefix as the documentation describes it
CodeOf(item) ==
    LET t == getTitle(item)
    IN  [has |-> HasColorCode(t),
         sat |-> IF HasColorCode(t) THEN parseInt(SubSeq(t, 2, 3)) ELSE null,
         bri |-> IF HasColorCode(t) THEN parseInt(SubSeq(t, 5, 7)) ELSE null]

GroupOf(sat) == IF sat <= SAT_GROUP_THRESHOLD THEN 0 ELSE 1

ColorOrderPrecedes(a, ia, b, ib) ==
    LET ca == CodeOf(a)
        cb == CodeOf(b)
    IN  \/ ca.has /\ ~cb.has
        \/ ~ca.has /\ ~cb.has /\ ia < ib
        \/ /\ ca.has /\ cb.has
           /\ \/ GroupOf(ca.sat) < GroupOf(cb.sat)
              \/ GroupOf(ca.sat) = GroupOf(cb.sat) /\ ca.bri < cb.bri
              \/ GroupOf(ca.sat) = GroupOf(cb.sat) /\ ca.bri = cb.bri
                    /\ ca.sat < cb.sat
              \/ ca.sat = cb.sat /\ ca.bri = cb.bri /\ ia < ib

AnyColorCode(items) == \E k \in 1..Len(items) : CodeOf(items[k]).has

\* C4: when some title carries a colour prefix, sortImagesByColor returns a
\* permutation of its input with the prefixed images first, ordered by group
\* (0 when saturation code <= SAT_GROUP_THRESHOLD, else 1), then brightness
\* code, then saturation code, then input order; images without a prefix
\* keep their input order.
C4_ColorOrder ==
    (DoneSorted /\ form.sortMode = "color" /\ AnyColorCode(before)) =>
        /\ IsPermutationOfIds(ordered, before)
        /\ \A p, q \in 1..Len(ordered) : p < q =>
              ColorOrderPrecedes(ItemById(before, ordered[p]),
                                 InputIndex(before, ordered[p]),
                                 ItemById(before, ordered[q]),
                                 InputIndex(before, ordered[q]))

\* three prefixed images of one group were reordered: brightness decided
\* between the first two, saturation between the last two
C4_Witness ==
    /\ DoneSorted /\ form.sortMode = "color"
    /\ Len(before) = 3
    /\ \A k \in 1..3 : CodeOf(before[k]).has /\ GroupOf(CodeOf(before[k]).sat) = 0
    /\ ordered = <<2, 3, 1>>
    /\ CodeOf(before[2]).bri < CodeOf(before[3]).bri
    /\ CodeOf(before[3]).bri = CodeOf(before[1]).bri
    /\ CodeOf(before[3]).sat < CodeOf(before[1]).sat

(***************************************************************************)
(* SpecLayout: the handler on images of different sizes and places, under  *)
(* every column count, gap, size mode and corner of the model              *)
(***************************************************************************)
\* width, height, x, y of an image
Shapes == { <<100, 100, 0, 0>>, <<200, 100, 150, 50>>,
            <<100, 200, 0 - 50, 300>>, <<200, 200, 0, 300>> }

\* horizontal and vertical gap as typed into the form
GapPairs == { <<0, 0>>, <<10, 0>>, <<0, 10>>, <<10, 20>>,
              <<0 - 250, 0>>, <<0, 0 - 250>> }

\* images titled "1", "2", ... so that the number order is the input order
ShapedImages(shapes) ==
    [k \in 1..Len(shapes) |->
        Item(k, "image", String(k), shapes[k][3], shapes[k][4],
             shapes[k][1], shapes[k][2])]

InitLayout ==
    /\ IdleUpload
    /\ IdleKey
    /\ IdleImport
    /\ \E n \in 1..MaxItems : \E shapes \in [1..n -> Shapes] :
       \E cols \in 1..MaxCols, gaps \in GapPairs,
          sizeMode \in SizeModes, corner \in Corners :
          SortingStart(ShapedImages(shapes),
              [imagesPerRow |-> NumberValue(cols),
               horizontalGap |-> NumberValue(gaps[1]),
               verticalGap |-> NumberValue(gaps[2]),
               sizeMode |-> sizeMode, startCorner |-> corner,
               sortMode |-> "number"])

SpecLayout == InitLayout /\ [][NextSorting]_vars

\* ---- the grid as the documentation describes it ----
\* the image at position p of the order, as the board holds it now
Placed(p) == ItemById(board, ordered[p])

FormColumns == form.imagesPerRow.n
FormHGap == form.horizontalGap.n
FormVGap == form.verticalGap.n

RowOfPos(p) == (p - 1) \div FormColumns
RowMembers(r) == { p \in 1..Len(ordered) : RowOfPos(p) = r }
RowHeight(r) == Max({ Placed(p).height : p \in RowMembers(r) })
\* twice the y of the centreline of row r
RowCentre2(r) == 2 * Placed(Min(RowMembers(r))).y

Left2(it) == 2 * it.x - it.width
Right2(it) == 2 * it.x + it.width
Top2(it) == 2 * it.y - it.height
Bottom2(it) == 2 * it.y + it.height

Disjoint(a, b) ==
    \/ Right2(a) <= Left2(b) \/ Right2(b) <= Left2(a)
    \/ Bottom2(a) <= Top2(b) \/ Bottom2(b) <= Top2(a)

\* C6: with anchor top-left the image at position i of the order is in row
\* floor(i / columns); a row is as high as its highest image, every image is
\* centred on the centreline of its row, rows follow each other downwards
\* exactly verticalGap apart, images of a row follow each other in order
\* exactly horizontalGap apart, and with non-negative gaps no two images
\* overlap.
C6_TopLeftGrid ==
    (DoneSorted /\ form.startCorner = "top-left") =>
        LET n == Len(ordered)
            lastRow == RowOfPos(n)
        IN  /\ \A p \in 1..n : 2 * Placed(p).y = RowCentre2(RowOfPos(p))
            /\ \A r \in 0..(lastRow - 1) :
                  RowCentre2(r + 1) - RowHeight(r + 1)
                      = RowCentre2(r) + RowHeight(r) + 2 * FormVGap
            /\ \A p \in 1..(n - 1) : RowOfPos(p) = RowOfPos(p + 1) =>
                  Left2(Placed(p + 1)) = Right2(Placed(p)) + 2 * FormHGap
            /\ (FormHGap >= 0 /\ FormVGap >= 0) =>
                  \A p, q \in 1..n : p # q => Disjoint(Placed(p), Placed(q))

\* three images of different heights in two rows of a top-left grid
C6_Witness ==
    /\ DoneSorted /\ form.startCorner = "top-left"
    /\ Len(ordered) = 3 /\ FormColumns = 2
    /\ FormHGap = 10 /\ FormVGap = 20
    /\ Placed(1).height # Placed(2).height
    /\ Placed(3).y > Placed(1).y
    /\ board # before

CornerOf(corner, bb) ==
    [x |-> IF corner \in {"top-left", "bottom-left"} THEN bb.minLeft ELSE bb.maxRight,
     y |-> IF corner \in {"top-left", "top-right"} THEN bb.minTop ELSE bb.maxBottom]

\* C8 as stated: the anchor corner of the bounding box of the images after
\* the call is the same corner of their bounding box before the call.
C8_AnchorsAtBoxBeforeCall ==
    DoneSorted =>
        CornerOf(form.startCorner, boundsOf(board))
            = CornerOf(form.startCorner, boundsOf(before))

\* C8 amended: with non-negative gaps, the anchor corner of the bounding
\* box of the images after the call is the same corner of the bounding box
\* they had after size normalisation and before being moved (which, for
\* size mode none, is their bounding box before the call).
C8_AnchorsAtBoxBeforeMove ==
    (DoneSorted /\ FormHGap >= 0 /\ FormVGap >= 0) =>
        /\ CornerOf(form.startCorner, boundsOf(board))
              = CornerOf(form.startCorner, boundsOf(preMove))
        /\ form.sizeMode = "none" => boundsOf(preMove) = boundsOf(before)

\* a bottom-right grid after a width normalisation that moved the box
C8_Witness ==
    /\ DoneSorted /\ form.startCorner = "bottom-right"
    /\ form.sizeMode = "width"
    /\ FormHGap = 10 /\ FormVGap = 20
    /\ Len(ordered) = 3
    /\ boundsOf(preMove) # boundsOf(before)
    /\ board # preMove

(***************************************************************************)
(* SpecGrid7: seven images of 100 x 100, three columns, gaps of 10         *)
(***************************************************************************)
InitGrid7 ==
    /\ IdleUpload
    /\ IdleKey
    /\ IdleImport
    /\ \E spots \in [1..7 -> {1, 2}] : \E corner \in Corners :
          SortingStart(
              [k \in 1..7 |->
                  Item(k, "image", String(k),
                       IF spots[k] = 1 THEN 60 * k ELSE 0,
                       IF spots[k] = 1 THEN 0 ELSE 0 - 80 * k, 100, 100)],
              [imagesPerRow |-> NumberValue(3),
               horizontalGap |-> NumberValue(10),
               verticalGap |-> NumberValue(10),
               sizeMode |-> "none", startCorner |-> corner,
               sortMode |-> "number"])

SpecGrid7 == InitGrid7 /\ [][NextSorting]_vars

FormConfig(corner) ==
    [imagesPerRow |-> FormColumns, horizontalGap |-> FormHGap,
     verticalGap |-> FormVGap, sizeMode |-> form.sizeMode,
     startCorner |-> corner]

\* C7: for the same ordered images and configuration (seven images of
\* 100 x 100, three columns, gaps of 10) the centres computed for anchor
\* bottom-right are those computed for anchor top-left reflected about the
\* grid's box: the offset of each image from the bottom-right corner is the
\* negated offset it has from the top-left corner under top-left; under
\* top-left, neighbours in a row and neighbouring rows are exactly 110 apart.
C7_BottomRightMirrorsTopLeft ==
    DoneSorted =>
        LET n == Len(ordered)
            bb == boundsOf(preMove)
            topLeft == placeImages(preMove, FormConfig("top-left"))
        IN  /\ form.startCorner = "bottom-right" =>
                \A p \in 1..n :
                    /\ Placed(p).x - bb.maxRight = 0 - (topLeft[p].x - bb.minLeft)
                    /\ Placed(p).y - bb.maxBottom = 0 - (topLeft[p].y - bb.minTop)
            /\ form.startCorner = "top-left" =>
                /\ \A p \in 1..(n - 1) : RowOfPos(p) = RowOfPos(p + 1) =>
                      /\ Placed(p + 1).x - Placed(p).x = 110
                      /\ Placed(p + 1).y = Placed(p).y
                /\ \A p \in 1..(n - 3) :
                      /\ Placed(p + 3).y - Placed(p).y = 110
                      /\ Placed(p + 3).x = Placed(p).x

\* the seven images laid out from the bottom-right corner: the first image
\* touches that corner and the seventh is alone in the top row
C7_Witness ==
    /\ DoneSorted /\ form.startCorner = "bottom-right"
    /\ Len(ordered) = 7
    /\ Right2(Placed(1)) = 2 * boundsOf(before).maxRight
    /\ Bottom2(Placed(1)) = 2 * boundsOf(before).maxBottom
    /\ Placed(7).y = Placed(1).y - 220
    /\ Placed(7).x = Placed(1).x

(***************************************************************************)
(* SpecSubmit: the handler under every reading of the columns field, on    *)
(* selections that may be empty or hold a non-image item                   *)
(***************************************************************************)
FormNumbers == {NaNValue} \cup { NumberValue(n) : n \in (0 - 2)..MaxCols }

SubmitItems ==
    { Item(0, "image", <<>>, 0, 0, 100, 100),
      Item(0, "image", <<"b", "1">>, 150, 50, 100, 100),
      Item(0, "shape", <<"s">>, 0, 300, 100, 100) }

SubmitFiles ==
    { <<>>, <<File(1, <<"a", "1">>, "ok", 100, 100, Analysis(TRUE, 7, 42), {})>> }

InitSubmit ==
    /\ IdleUpload
    /\ IdleKey
    /\ \E n \in 0..MaxItems : \E items \in [1..n -> SubmitItems] :
       \E cols \in FormNumbers, sortMode \in {"number", "color"} :
          SortingStart([k \in 1..n |-> [items[k] EXCEPT !.id = k]],
              [imagesPerRow |-> cols,
               horizontalGap |-> NumberValue(10),
               verticalGap |-> NaNValue,
               sizeMode |-> "none", startCorner |-> "top-left",
               sortMode |-> sortMode])
    /\ \E fs \in SubmitFiles, cols \in FormNumbers :
          ImportStart(fs,
              [imagesPerRow |-> cols, startCorner |-> "top-left", skipMissing |-> FALSE],
              Host(Viewport(TRUE, 0, 0, 1000, 800), 0),
              4 * SLICE_TILE_SIZE)

NextSubmit == NextSorting \/ NextImport

SpecSubmit == InitSubmit /\ [][NextSubmit]_vars

ErrorShown == \E k \in 1..Len(notes) : notes[k].kind = "error"

StitchErrorShown == \E k \in 1..Len(stitchNotes) : stitchNotes[k].kind = "error"

\* C9: when the columns value entered is less than 1 (0 and negative
\* numbers included), the sorting handler run on a selection with an image
\* and the import handler run on chosen files each show an error
\* notification and stop without changing or creating any board item.
C9_ColumnsBelowOneRejected ==
    /\ (/\ pc = "done"
        /\ ~form.imagesPerRow.nan /\ form.imagesPerRow.n < 1
        /\ \E k \in 1..Len(before) : IsImage(before[k])) =>
           /\ ErrorShown
           /\ board = before
    /\ (/\ stitchPc = "done"
        /\ ~stitchForm.imagesPerRow.nan /\ stitchForm.imagesPerRow.n < 1
        /\ files # <<>>) =>
           /\ StitchErrorShown
           /\ created = <<>>

(***************************************************************************)
(* The colour code written into a title and read back                      *)
(***************************************************************************)
CodeNames == { <<>>, <<"7">>, <<"a", " ", "1">> }

InitColorCode ==
    /\ IdleUpload
    /\ IdleKey
    /\ IdleSorting
    /\ \E name \in CodeNames, satCode \in 0..SAT_CODE_MAX, briCode \in 0..999 :
        ImportStart(<<File(1, name, "ok", 100, 100,
                           Analysis(TRUE, satCode, briCode), {})>>,
                    StitchForm(1, "top-left", FALSE),
                    Host(Viewport(TRUE, 0, 0, 1000, 800), 0),
                    16384)

SpecColorCode == InitColorCode /\ [][NextImport]_vars

\* C5: the title the import handler gives a widget, for every saturation
\* code 0..99, brightness code 0..999 and file name, is read by the colour
\* sort as carrying a code, and the pair it parses is the pair written.
C5_ColorCodeRoundTrip ==
    \A k \in 1..Len(created) :
        created[k].hasTitle =>
            LET f == FileById(created[k].file)
                m == colorMeta(<<created[k]>>)[1]
            IN  /\ m.hasCode
                /\ m.satCode = f.analysis.satCodeRaw
                /\ m.briCode = f.analysis.briCodeRaw

C5_Witness ==
    /\ stitchPc = "done"
    /\ Len(created) = 1
    /\ created[1].title = <<"C", "0", "7", "/", "0", "4", "2", " ", "7">>
    /\ files[1].analysis.satCodeRaw = 7
    /\ files[1].analysis.briCodeRaw = 42

(***************************************************************************)
(* The slice plan                                                          *)
(***************************************************************************)
SliceWidths ==
    { 100, SLICE_THRESHOLD_WIDTH, SLICE_THRESHOLD_WIDTH + 1,
      3 * SLICE_TILE_SIZE, 3 * SLICE_TILE_SIZE + 1,
      4 * SLICE_TILE_SIZE - 1, 4 * SLICE_TILE_SIZE, 4 * SLICE_TILE_SIZE + 1 }

SliceHeights ==
    { 100, SLICE_THRESHOLD_HEIGHT, SLICE_THRESHOLD_HEIGHT + 1,
      2 * SLICE_TILE_SIZE - 1, 2 * SLICE_TILE_SIZE, 4 * SLICE_TILE_SIZE }

InitSlice ==
    /\ IdleUpload
    /\ IdleKey
    /\ IdleSorting
    /\ \E w \in SliceWidths, h \in SliceHeights,
          hardTiles \in { {}, {<<0, 0>>}, {<<1, 0>>, <<0, 1>>} },
          createFailsAt \in {0, 2},
          maxDim \in { 2 * SLICE_TILE_SIZE, 4 * SLICE_TILE_SIZE } :
        ImportStart(<<File(1, <<"a">>, "ok", w, h, Analysis(TRUE, 0, 0), hardTiles)>>,
                    StitchForm(1, "top-left", FALSE),
                    Host(Viewport(TRUE, 0, 0, 1000, 800), createFailsAt),
                    maxDim)

SpecSlice == InitSlice /\ [][NextImport]_vars

\* the smallest n with n * T >= a
CeilOf(a, T) == CHOOSE n \in 0..a : n * T >= a /\ (n = 0 \/ (n - 1) * T < a)

RectsOverlap(a, b) ==
    /\ a.sx < b.sx + b.sw /\ b.sx < a.sx + a.sw
    /\ a.sy < b.sy + b.sh /\ b.sy < a.sy + a.sh

CutArea ==
    LET areaTo[k \in 0..Len(cut)] ==
            IF k = 0 THEN 0 ELSE areaTo[k - 1] + cut[k].sw * cut[k].sh
    IN  areaTo[Len(cut)]

\* the import ran to its end on one accepted file that needs slicing
SlicedToEnd ==
    /\ stitchPc = "done"
    /\ progress.label = "Done!"
    /\ Len(files) = 1
    /\ files[1].width > SLICE_THRESHOLD_WIDTH \/ files[1].height > SLICE_THRESHOLD_HEIGHT

\* C10: for a source that triggers slicing, the rectangles cut from it are
\* ceil(width/T) columns by ceil(height/T) rows, tile (tx, ty) starts at
\* (tx*T, ty*T), every tile has positive sizes of at most T, the tiles lie
\* inside the source, do not overlap and their areas add up to the source
\* area (so they cover it exactly), and only the last column and the last
\* row are smaller than T.
C10_SliceCoversSource ==
    SlicedToEnd =>
        LET w == files[1].width
            h == files[1].height
            T == SLICE_TILE_SIZE
        IN  /\ Len(cut) = CeilOf(w, T) * CeilOf(h, T)
            /\ \A k \in 1..Len(cut) :
                /\ cut[k].sx = cut[k].tx * T /\ cut[k].sy = cut[k].ty * T
                /\ cut[k].tx \in 0..(CeilOf(w, T) - 1)
                /\ cut[k].ty \in 0..(CeilOf(h, T) - 1)
                /\ cut[k].sw > 0 /\ cut[k].sw <= T
                /\ cut[k].sh > 0 /\ cut[k].sh <= T
                /\ cut[k].sx >= 0 /\ cut[k].sx + cut[k].sw <= w
                /\ cut[k].sy >= 0 /\ cut[k].sy + cut[k].sh <= h
                /\ cut[k].sw < T => cut[k].sx + cut[k].sw = w
                /\ cut[k].sh < T => cut[k].sy + cut[k].sh = h
            /\ \A j, k \in 1..Len(cut) : j # k => ~RectsOverlap(cut[j], cut[k])
            /\ CutArea = w * h

C10_Witness ==
    /\ SlicedToEnd
    /\ files[1].width = 3 * SLICE_TILE_SIZE + 1
    /\ files[1].height = SLICE_THRESHOLD_HEIGHT + 1
    /\ Len(cut) = 8
    /\ \E k \in 1..Len(cut) : cut[k].sw = 1 /\ cut[k].sh = 1

(***************************************************************************)
(* The tile encoder and the hard limit                                     *)
(***************************************************************************)
InitEncoder ==
    /\ IdleBase
    /\ IdleUploadExcept("encoder")
    /\ \E maxBytes \in {TARGET_URL_BYTES, MAX_URL_BYTES, MAX_URL_BYTES + 1} :
        encoder = EncoderState("try", maxBytes, 1, 0, 0, 0, null)

NextEncoder ==
    canvasToDataUrlUnderLimit /\ UnchangedBase /\ UnchangedUploadExcept("encoder")

SpecEncoder == InitEncoder /\ [][NextEncoder]_vars

\* C11: whatever lengths the JPEG encoder yields, the string the tile
\* encoder returns is not longer than MAX_URL_BYTES.
C11_EncodedWithinHardLimit ==
    encoder.at = "returned" => encoder.returned <= MAX_URL_BYTES

(***************************************************************************)
(* Create with retry                                                       *)
(***************************************************************************)
InitRetry ==
    /\ IdleBase
    /\ IdleUploadExcept("retry")
    /\ retry = RetryState("call", 0, null, <<>>, <<>>, null, null)

NextRetry ==
    createImageWithRetry /\ UnchangedBase /\ UnchangedUploadExcept("retry")

SpecRetry == InitRetry /\ [][NextRetry]_vars

RetryCalls == Len(retry.outcomes)

RetryFailures == Cardinality({ k \in 1..RetryCalls : retry.outcomes[k] = "fail" })

\* C12: createImageWithRetry calls board.createImage at most 6 times; a
\* success is the last call and its result is what is returned; it throws
\* only after 6 failed calls in a row, and what it throws is the error of
\* the 6th; the delay slept before retry k (k = 1..5) is at least
\* 500 * 2^(k-1) ms and less than that plus 250 ms; there is one sleep per
\* failed call but the last of six.
C12_RetryBackoff ==
    /\ RetryCalls <= 1 + CREATE_IMAGE_MAX_RETRIES
    /\ \A k \in 1..RetryCalls :
        retry.outcomes[k] = "ok" => (k = RetryCalls /\ retry.at = "returned")
    /\ retry.at = "returned" =>
        (retry.result = RetryCalls /\ retry.outcomes[RetryCalls] = "ok")
    /\ retry.at = "thrown" =>
        /\ RetryCalls = 6
        /\ \A k \in 1..6 : retry.outcomes[k] = "fail"
        /\ retry.thrown = 6
        /\ Len(retry.sleeps) = 5
    /\ retry.at # "thrown" => Len(retry.sleeps) = RetryFailures
    /\ Len(retry.sleeps) <= 5
    /\ \A k \in 1..Len(retry.sleeps) :
        /\ retry.sleeps[k] >= 500 * Pow2(k - 1)
        /\ retry.sleeps[k] < 500 * Pow2(k - 1) + 250
    /\ retry.at = "sleep" => Len(retry.sleeps) = RetryCalls
    /\ retry.at = "call" => Len(retry.sleeps) = RetryCalls

C12_Witness ==
    /\ retry.at = "thrown"
    /\ retry.sleeps[5] = 8249

(***************************************************************************)
(* Adaptive concurrency with a worker of fixed latency that never fails    *)
(***************************************************************************)
NextAdaptive == AdaptiveBatch /\ UnchangedBase /\ UnchangedUploadExcept("sched")

InitSteady ==
    /\ IdleBase
    /\ IdleUploadExcept("sched")
    /\ \E items \in {112, 128, 136},
          latency \in {1000, 2000, 4000},
          bytes \in {1000000, 2000000} :
        sched = SchedState("run", items, Worker(latency, bytes, {0}, {0}, {0}),
                           \* totalTiles >= 128 ? UPLOAD_CONCURRENCY_INITIAL_LARGE
                           \*                   : UPLOAD_CONCURRENCY_SMALL
                           IF items >= 128 THEN UPLOAD_CONCURRENCY_INITIAL_LARGE
                                           ELSE UPLOAD_CONCURRENCY_SMALL,
                           UPLOAD_CONCURRENCY_MIN, UPLOAD_CONCURRENCY_MAX)

SpecSteady == InitSteady /\ [][NextAdaptive]_vars

\* one probe lasts three batches (up, keep, accept), and there are at most
\* maxConcurrency - minConcurrency of them on the way up
ConvergeBatches == 3 * (UPLOAD_CONCURRENCY_MAX - UPLOAD_CONCURRENCY_MIN)

\* C13: with a worker of fixed latency that never fails and equal bytes per
\* item, once ConvergeBatches batches have run and items are still left,
\* the concurrency is maxConcurrency.
C13_SteadyWorkerReachesMax ==
    (sched.at = "run" /\ sched.batches >= ConvergeBatches) =>
        sched.concurrency = sched.maxConcurrency

(***************************************************************************)
(* Adaptive concurrency with a worker whose calls need retries             *)
(***************************************************************************)
InitFlaky ==
    /\ IdleBase
    /\ IdleUploadExcept("sched")
    /\ \E items \in {24, 40},
          initialConcurrency \in 1..(UPLOAD_CONCURRENCY_MAX + 1) :
        sched = SchedState("run", items,
                           Worker(1000, 1000000, {0, 62000}, {36, 100, 500}, {1}),
                           initialConcurrency,
                           UPLOAD_CONCURRENCY_MIN, UPLOAD_CONCURRENCY_MAX)

SpecFlaky == InitFlaky /\ [][NextAdaptive]_vars

SchedStart ==
    Max({sched.minConcurrency, Min({sched.maxConcurrency, sched.initialConcurrency})})

\* C14: with more than 0.35 retry events per item in every batch, the
\* concurrency goes down by one per batch until it is minConcurrency, which
\* takes at most maxConcurrency - minConcurrency batches, and stays there.
C14_FlakyWorkerReachesMin ==
    /\ sched.concurrency = Max({sched.minConcurrency, SchedStart - sched.batches})
    /\ sched.batches >= sched.maxConcurrency - sched.minConcurrency =>
           sched.concurrency = sched.minConcurrency

C14_Witness ==
    /\ sched.initialConcurrency = UPLOAD_CONCURRENCY_MAX
    /\ sched.batches = 5
    /\ sched.concurrency = UPLOAD_CONCURRENCY_MIN
    /\ sched.action = "keep"

(***************************************************************************)
(* The import of img_1.png .. img_10.png, all 200x150, four per row from   *)
(* the top-left corner, picked in several orders, under several viewports  *)
(***************************************************************************)
ImgName(n) == <<"i", "m", "g", "_">> \o String(n) \o <<".", "p", "n", "g">>

\* the orders in which the file input lists the ten files
PickOrders ==
    { <<1, 2, 3, 4, 5, 6, 7, 8, 9, 10>>,
      <<10, 9, 8, 7, 6, 5, 4, 3, 2, 1>>,
      <<1, 10, 2, 3, 4, 5, 6, 7, 8, 9>>,
      <<10, 1, 2, 3, 4, 5, 6, 7, 8, 9>>,
      <<6, 7, 8, 9, 10, 1, 2, 3, 4, 5>>,
      <<2, 4, 6, 8, 10, 1, 3, 5, 7, 9>> }

\* what board.viewport.get() gives; the first is its failure
TenViewports ==
    { Viewport(FALSE, 0, 0, 0, 0),
      Viewport(TRUE, 0, 0, 800, 450),
      Viewport(TRUE, 0 - 400, 0 - 225, 800, 450),
      Viewport(TRUE, 100, 50, 1000, 600),
      Viewport(TRUE, 0, 0, 801, 451) }

InitTen ==
    /\ IdleKey /\ IdleSorting /\ IdleUpload
    /\ \E order \in PickOrders, viewport \in TenViewports,
          analysis \in {Analysis(TRUE, 50, 500), Analysis(FALSE, 0, 0)},
          skipMissing \in BOOLEAN :
        ImportStart([k \in 1..10 |->
                        File(order[k], ImgName(order[k]), "ok", 200, 150, analysis, {})],
                    StitchForm(4, "top-left", skipMissing),
                    Host(viewport, 0), 16384)

SpecTen == InitTen /\ [][NextImport]_vars

\* the doubled centre of the view the grid is centred on
ViewCentreX2 == IF host.viewport.ok THEN 2 * host.viewport.x + host.viewport.width ELSE 0
ViewCentreY2 == IF host.viewport.ok THEN 2 * host.viewport.y + host.viewport.height ELSE 0

TenCreatedInOrder ==
    /\ Len(created) = 10
    /\ \A k \in 1..10 : created[k].file = k /\ ~created[k].sliced

\* C15 as stated: ten widgets in numeric file order, rows of 4, 4 and 2, row
\* centres at y = 75, 225, 375 and column centres at x = 100, 300, 500, 700.
C15_TenFilesAtFixedCentres ==
    stitchPc = "done" =>
        /\ TenCreatedInOrder
        /\ \A k \in 1..10 :
            /\ created[k].x2 = 2 * (100 + 200 * ((k - 1) % 4))
            /\ created[k].y2 = 2 * (75 + 150 * ((k - 1) \div 4))

\* C15: ten widgets are created, in numeric file order (img_10 last), in rows
\* of 4, 4 and 2; the 800 x 450 grid is centred on the centre of the viewport
\* ((0, 0) when the board does not report one), so the column centres are
\* 100, 300, 500, 700 and the row centres 75, 225, 375 measured from the
\* top-left corner of the grid, which is at (0, 0) exactly when the viewport
\* centre is (400, 225).
C15_TenFilesAroundViewCentre ==
    stitchPc = "done" =>
        /\ TenCreatedInOrder
        /\ \A k \in 1..10 :
            /\ created[k].x2 = ViewCentreX2 - 800 + 2 * (100 + 200 * ((k - 1) % 4))
            /\ created[k].y2 = ViewCentreY2 - 450 + 2 * (75 + 150 * ((k - 1) \div 4))
        /\ (ViewCentreX2 = 800 /\ ViewCentreY2 = 450) =>
               \A k \in 1..10 :
                   /\ created[k].x2 = 2 * (100 + 200 * ((k - 1) % 4))
                   /\ created[k].y2 = 2 * (75 + 150 * ((k - 1) \div 4))

C15_Witness ==
    /\ stitchPc = "done"
    /\ files[2].name = ImgName(10)
    /\ ViewCentreX2 = 800 /\ ViewCentreY2 = 450
    /\ Len(created) = 10
    /\ created[10].file = 10
    /\ created[10].x2 = 600 /\ created[10].y2 = 750

(***************************************************************************)
(* The upload stage with create calls that fail after their last retry     *)
(***************************************************************************)
NextUpload ==
    (runWithConcurrency \/ UploadBatchEnd) /\ UnchangedBase /\ UnchangedUploadExcept("upload")

InitUpload ==
    /\ IdleBase
    /\ IdleUploadExcept("upload")
    /\ \E items \in {7, 8} :
       \E failing \in { f \in SUBSET (1..items) : Cardinality(f) <= 1 } :
            \* fewer than 128 tiles: UPLOAD_CONCURRENCY_SMALL
            upload = UploadState("run", items, failing, UPLOAD_CONCURRENCY_SMALL,
                                 UPLOAD_CONCURRENCY_MIN, UPLOAD_CONCURRENCY_MAX)

SpecUpload == InitUpload /\ [][NextUpload]_vars

\* the handler has finished and no runner has anything left to do
UploadSettled ==
    /\ upload.at \in {"done", "failed"}
    /\ \A r \in 1..Len(upload.runners) : upload.runners[r].st \in {"ended", "threw"}

UploadMade == { upload.made[k].info : k \in 1..Len(upload.made) }

\* C16: when the create call of one item fails after all its retries, every
\* other item, of its batch and of the later batches, is created all the same.
C16_FailedCreateDoesNotAbort ==
    UploadSettled => \A item \in 1..upload.items :
                         item \notin upload.failing => item \in UploadMade

\* the runners whose worker invocation has started and not yet finished
InFlight == { r \in 1..Len(upload.runners) : upload.runners[r].st = "busy" }

\* C24: the task indices are handed to the worker in the order 0, 1, 2, ...,
\* none twice; the widget of a task sits at the slot of the info it was made
\* from, in whatever order the tasks completed; and an upload that ran to
\* its end has handed out every index.
C24_TasksBoundToTheirInfo ==
    /\ \A k \in 1..Len(upload.started) : upload.started[k] = k - 1
    /\ \A k \in 1..Len(upload.made) : upload.made[k].slot = upload.made[k].info - 1
    /\ \A j, k \in 1..Len(upload.made) : j # k => upload.made[j].info # upload.made[k].info
    /\ upload.at = "done" => Len(upload.started) = upload.items

\* an upload over more than one batch has finished with two tasks completed
\* against their index order
C24_Witness ==
    /\ upload.at = "done"
    /\ Len(upload.made) = upload.items
    /\ \E j, k \in 1..Len(upload.made) :
            /\ j < k
            /\ upload.made[j].info > upload.made[k].info
            /\ upload.made[k].info > 4

\* C27: never more invocations in flight than the concurrency of the batch,
\* every invocation in flight is a task of the current batch, and every task
\* of the batches before it has finished.
C27_InFlightWithinConcurrency ==
    /\ Cardinality(InFlight) <= upload.concurrency
    /\ \A r \in InFlight :
            /\ upload.runners[r].item > upload.idx
            /\ upload.runners[r].item <= upload.idx + upload.batchLen
    /\ \A item \in 1..upload.idx : item \in UploadMade

\* a later batch, run with a lowered concurrency, with every runner busy
C27_Witness ==
    /\ upload.idx > 0
    /\ upload.concurrency < UPLOAD_CONCURRENCY_SMALL
    /\ Cardinality(InFlight) = upload.concurrency

\* C28: once the handler has reported the failure, the import issues no
\* further create call and no further progress update.
C28_NothingAfterFailureReport ==
    [][(upload.at = "failed" /\ upload.progressLabel = "Error" /\ ~upload.buttonDisabled)
            => /\ upload'.createCalls = upload.createCalls
               /\ upload'.progressUpdates = upload.progressUpdates
               /\ upload'.progressLabel = upload.progressLabel]_vars

(***************************************************************************)
(* A throttled function with the interval of setProgress and setEtaText,   *)
(* called, flushed and timed out in every order                            *)
(***************************************************************************)
NextThrottle == makeThrottled /\ UnchangedBase /\ UnchangedUploadExcept("throttle")

InitThrottle ==
    /\ IdleBase
    /\ IdleUploadExcept("throttle")
    /\ throttle = ThrottleState("on", 200)

SpecThrottle == InitThrottle /\ [][NextThrottle]_vars

\* C18: any two consecutive invocations of the wrapped function that do not
\* come from flush are at least intervalMs apart.
C18_ThrottleSpacing ==
    \A k \in 1..(Len(throttle.invocations) - 1) :
        (throttle.invocations[k].via # "flush" /\ throttle.invocations[k + 1].via # "flush")
            => throttle.invocations[k + 1].t - throttle.invocations[k].t
                    >= throttle.intervalMs

(***************************************************************************)
(* The import of three files of which any may be one the preparation loop  *)
(* rejects                                                                 *)
(***************************************************************************)
\* <<status, width, height>> of a file under the per-side limit maxDim
FileShapes(maxDim) ==
    { <<"ok", 200, 150>>, <<"ok", 9000, 100>>,
      <<"undecodable", 0, 0>>,
      <<"ok", 0, 150>>, <<"ok", 200, 0>>,
      <<"ok", maxDim + 1, 100>>, <<"ok", 100, maxDim + 1>> }

InitReject ==
    /\ IdleKey /\ IdleSorting /\ IdleUpload
    /\ \E maxDim \in {8192, 16384}, order \in {<<1, 2, 3>>, <<3, 1, 2>>},
          skipMissing \in BOOLEAN :
       \E shapes \in [1..3 -> FileShapes(maxDim)] :
            ImportStart([k \in 1..3 |->
                            File(order[k], <<"a", DigitChar(order[k])>>, shapes[k][1],
                                 shapes[k][2], shapes[k][3], Analysis(TRUE, 50, 500), {})],
                        StitchForm(2, "top-left", skipMissing),
                        Host(Viewport(TRUE, 0, 0, 800, 600), 0), maxDim)

SpecReject == InitReject /\ [][NextImport]_vars

MustReject(f) ==
    \/ f.status = "undecodable"
    \/ f.width = 0 \/ f.height = 0
    \/ f.width > MAX_SLICE_DIM \/ f.height > MAX_SLICE_DIM

MayKeep(f) == ~MustReject(f)

ErrorNames(name) ==
    \E j \in 1..Len(stitchNotes) :
        /\ stitchNotes[j].kind = "error"
        /\ "file" \in DOMAIN stitchNotes[j]
        /\ stitchNotes[j].file = name

\* the widgets of an import of the files that are not rejected, alone
CreatedWithoutRejected ==
    LET kept == SelectSeq(files, MayKeep)
        prep == prepareFiles(kept, MAX_SLICE_DIM)
        orderedInfos == orderInfos(kept, prep.prepared, [k \in 1..Len(kept) |-> k])
        centers == slotCenters(orderedInfos, stitchForm,
                               OrDefault(stitchForm.imagesPerRow, 1), host)
    IN  SelectSeq(allCreationSteps(orderedInfos, centers), isCreate)

\* C17: a file that cannot be decoded, has a zero dimension or a side above
\* MAX_SLICE_DIM gets an error notification that names it and no widget; the
\* other files are created exactly as if the rejected ones had not been
\* chosen, each of them with at least one widget.
C17_RejectedFileSkipped ==
    stitchPc = "done" =>
        /\ \A k \in 1..Len(files) :
            IF MustReject(files[k])
            THEN /\ ErrorNames(files[k].name)
                 /\ \A j \in 1..Len(created) : created[j].file # files[k].id
                 /\ \A j \in 1..Len(cut) : cut[j].file # files[k].id
            ELSE /\ ~ErrorNames(files[k].name)
                 /\ \E j \in 1..Len(created) : created[j].file = files[k].id
        /\ created = CreatedWithoutRejected

C17_Witness ==
    /\ stitchPc = "done"
    /\ files[1].height > MAX_SLICE_DIM
    /\ files[2].status = "undecodable"
    /\ files[3].width = 9000
    /\ Len(created) = 3
    /\ ErrorNames(files[1].name) /\ ErrorNames(files[2].name)

(***************************************************************************)
(* Two calls of sortFilesByNameWithNumber on the same files                *)
(***************************************************************************)
OrderNames == { <<"a">>, <<"b">>, <<"c">>, <<"a", "1">>, <<"b", "2">> }

InitFileOrder ==
    /\ IdleKey /\ IdleSorting
    /\ IdleUploadExcept("orderings")
    /\ orderings = <<>>
    /\ \E n \in 2..3 : \E names \in [1..n -> OrderNames] :
        ImportStart([k \in 1..n |->
                        File(k, names[k], "ok", 200, 150, Analysis(TRUE, 50, 500), {})],
                    StitchForm(2, "top-left", FALSE),
                    Host(Viewport(TRUE, 0, 0, 800, 600), 0), 16384)

NextFileOrder ==
    /\ SortFilesCall
    /\ UNCHANGED keyVars /\ UNCHANGED sortingVars /\ UNCHANGED importVars
    /\ UnchangedUploadExcept("orderings")

SpecFileOrder == InitFileOrder /\ [][NextFileOrder]_vars

\* C19: two calls of sortFilesByNameWithNumber on the same list of files
\* return the same sequence, whether or not a file name holds a digit.
C19_FileOrderDeterministic ==
    Len(orderings) = 2 => orderings[1] = orderings[2]

(***************************************************************************)
(* sortImagesByNumber on images with and without empty titles, with syncs  *)
(* that the host settles in any order, each with success or failure        *)
(***************************************************************************)
NextNumberSort ==
    /\ NumberSortCall \/ SyncSettles \/ NumberSortResume
    /\ UnchangedBase
    /\ UnchangedUploadExcept("numberSort")

InitNumberSort ==
    /\ IdleBase
    /\ IdleUploadExcept("numberSort")
    /\ \E n \in 1..MaxItems : \E titles \in [1..n -> NumberTitles] :
       \E layout \in PositionLayouts :
            numberSort = NumberSortState("called", TitledImages(titles, layout))

SpecNumberSort == InitNumberSort /\ [][NextNumberSort]_vars

HadEmptyTitle == \E i \in 1..Len(numberSort.input) : numberSort.input[i].title = <<>>

NumberSortImage(id) ==
    numberSort.images[CHOOSE k \in 1..Len(numberSort.images) : numberSort.images[k].id = id]

\* a comes no later than b in y ascending, then x ascending
GeometryNotAfter(a, b) == a.y < b.y \/ (a.y = b.y /\ a.x <= b.x)

\* C20: with an empty title among the items, the keys are read only when
\* the sync of every item has completed, and on return the k-th item of the
\* result is titled String(k), has k as its numeric key, and the result is
\* in geometry order; with no empty title, the items are as they were and
\* no sync was issued.
C20_RenameSyncedBeforeKeys ==
    /\ (numberSort.at = "returned" /\ HadEmptyTitle) =>
        /\ \A id \in 1..Len(numberSort.input) : numberSort.syncsAtKeys[id] = "ok"
        /\ Len(numberSort.result) = Len(numberSort.input)
        /\ \A k \in 1..Len(numberSort.result) :
            /\ NumberSortImage(numberSort.result[k]).title = String(k)
            /\ NumberSortImage(numberSort.result[k]).title # <<>>
            /\ extractTrailingNumber(NumberSortImage(numberSort.result[k]).title) = k
            /\ numberSort.result[k] \in 1..Len(numberSort.input)
        /\ \A k \in 1..(Len(numberSort.result) - 1) :
            /\ numberSort.result[k] # numberSort.result[k + 1]
            /\ GeometryNotAfter(numberSort.input[numberSort.result[k]],
                                numberSort.input[numberSort.result[k + 1]])
    /\ (numberSort.at \in {"awaiting", "thrown"}) =>
        /\ HadEmptyTitle
        /\ numberSort.syncsAtKeys = <<>> /\ numberSort.result = <<>>
    /\ (numberSort.at # "off" /\ ~HadEmptyTitle) =>
        /\ numberSort.images = numberSort.input
        /\ \A id \in 1..Len(numberSort.input) : numberSort.syncs[id] = "none"

C20_Witness ==
    /\ numberSort.at = "returned"
    /\ Len(numberSort.input) = 3
    /\ numberSort.input[1].title = <<"b", "1">>
    /\ numberSort.input[2].title = <<>>
    /\ numberSort.result # <<1, 2, 3>>
    /\ NumberSortImage(1).title # <<"b", "1">>

(***************************************************************************)
(* Adaptive concurrency with a worker whose batches may be clean, need a   *)
(* few retries, need many, or be very slow, in any sequence                *)
(***************************************************************************)
InitMixed ==
    /\ IdleBase
    /\ IdleUploadExcept("sched")
    /\ \E initialConcurrency \in 1..(UPLOAD_CONCURRENCY_MAX + 1) :
        sched = SchedState("run", 24,
                           Worker(1000, 1000000, {0, 62000}, {0, 20, 100}, {0}),
                           initialConcurrency,
                           UPLOAD_CONCURRENCY_MIN, UPLOAD_CONCURRENCY_MAX)

SpecMixed == InitMixed /\ [][NextAdaptive]_vars

\* a pass of the while loop has just been decided
BatchDecided == sched'.batches = sched.batches + 1

\* the classification of the batch b = [batchSize, dtMs, retries]
BatchUnstable(b) ==
    \/ b.retries * 100 > 35 * Max({1, b.batchSize})
    \/ b.dtMs > 15000 * Max({1, b.batchSize})

BatchStable(b) ==
    /\ b.retries * 100 < 8 * Max({1, b.batchSize})
    /\ b.dtMs < 9000 * Max({1, b.batchSize})

\* C21: after an unstable batch with concurrency above minConcurrency the
\* concurrency is one less, lockedMax is at most the new concurrency and no
\* probe is in progress; at minConcurrency an unstable batch leaves the
\* concurrency where it is.
C21_UnstableBatchBacksOff ==
    [][ (BatchDecided /\ BatchUnstable(sched'.last)) =>
            IF sched.concurrency > sched.minConcurrency
            THEN /\ sched'.concurrency = sched.concurrency - 1
                 /\ sched'.lockedMax <= sched'.concurrency
                 /\ sched'.lockedMax <= sched.lockedMax
                 /\ ~sched'.probe.on
                 /\ sched'.cooldownBatches = 1
            ELSE sched'.concurrency = sched.concurrency ]_vars

C21_Witness ==
    /\ sched.action = "down"
    /\ sched.last.retries = 0
    /\ sched.last.dtMs > 15000 * sched.last.batchSize
    /\ sched.concurrency = UPLOAD_CONCURRENCY_MIN
    /\ sched.lockedMax = UPLOAD_CONCURRENCY_MIN

\* C22: at the decision that follows a decision which set the cooldown (a
\* decrease, the start of a probe, a cap or an accept), the concurrency is
\* not raised.
C22_NoRaiseAfterCooldownSet ==
    [][ (BatchDecided /\ sched.action \in {"down", "up", "cap", "accept"}) =>
            sched'.concurrency <= sched.concurrency ]_vars

\* tp / base < num / den, for throughputs kept as fractions
ThroughputRatioBelow(tp, base, above, below) ==
    LET g == GCD(tp.d, base.d)
    IN  below * tp.n * (base.d \div g) < above * base.n * (tp.d \div g)

C26_ConcurrencyWithinCeiling ==
    /\ [](/\ sched.minConcurrency <= sched.concurrency
          /\ sched.concurrency <= sched.lockedMax
          /\ sched.lockedMax <= sched.maxConcurrency)
    /\ [][sched'.lockedMax <= sched.lockedMax]_vars

\* the ceiling was lowered, and a clean batch at the ceiling starts no probe
C26_Witness ==
    /\ sched.lockedMax < sched.maxConcurrency
    /\ sched.concurrency = sched.lockedMax
    /\ sched.action = "keep"
    /\ sched.cooldownBatches = 0
    /\ BatchStable(sched.last)
    /\ sched.at = "run"

\* the first call whose output is within the target, among the first three
FirstWithinTarget ==
    { k \in 1..Min({3, Len(encoder.outputs)}) :
        /\ encoder.outputs[k].length <= encoderTarget
        /\ \A j \in 1..(k - 1) : encoder.outputs[j].length > encoderTarget }

SlotName(prefix, n) == <<prefix>> \o String(n) \o <<".", "p", "n", "g">>

SlotNames ==
    { SlotName("a", 1), SlotName("b", 1), SlotName("a", 2), SlotName("a", 4),
      <<"x", ".", "p", "n", "g">> }

\* the pixel sizes of the three files
SlotSizes ==
    { <<[w |-> 200, h |-> 150], [w |-> 200, h |-> 150], [w |-> 200, h |-> 150]>>,
      <<[w |-> 200, h |-> 150], [w |-> 100, h |-> 300], [w |-> 50, h |-> 50]>> }

InitSlots ==
    /\ IdleKey /\ IdleSorting /\ IdleUpload
    /\ \E names \in { f \in [1..3 -> SlotNames] : \A j, k \in 1..3 : j # k => f[j] # f[k] },
          sizes \in SlotSizes, imagesPerRow \in {1, 2},
          startCorner \in {"top-left", "top-right", "bottom-left", "bottom-right"},
          skipMissing \in BOOLEAN :
        ImportStart([k \in 1..3 |->
                        File(k, names[k], "ok", sizes[k].w, sizes[k].h,
                             Analysis(TRUE, 50, 500), {})],
                    StitchForm(imagesPerRow, startCorner, skipMissing),
                    Host(Viewport(TRUE, 0, 0, 800, 450), 0), 16384)

SpecSlots == InitSlots /\ [][NextImport]_vars

\* C29: no two widgets made from distinct source files of one import have
\* the same slot centre.
C29_DistinctSlotCentres ==
    \A j, k \in 1..Len(created) :
        created[j].file # created[k].file
            => <<created[j].x2, created[j].y2>> # <<created[k].x2, created[k].y2>>

\* the same in the variable-cell layout alone
C29_DistinctInVariableLayout == ~stitchForm.skipMissing => C29_DistinctSlotCentres

(***************************************************************************)
(* The final import handler run on one to three decodable files with a     *)
(* columns value of at least 1 and a host whose calls all succeed          *)
(***************************************************************************)
handleStitchSubmitFinal == FinalSubmit \/ FinalStatement \/ FinalCatch \/ FinalFinally

NextFinal == handleStitchSubmitFinal /\ UnchangedBase /\ UnchangedUploadExcept("final")

InitFinal ==
    /\ IdleBase
    /\ IdleUploadExcept("final")
    /\ \E n \in 1..3 : \E tiles \in [1..n -> {1, 2, 4}] : \E imagesPerRow \in 1..4 :
            final = FinalState("idle", tiles, imagesPerRow)

SpecFinal == InitFinal /\ [][NextFinal]_vars

\* an async function whose awaited calls all settle runs to its end
SpecFinalFair == SpecFinal /\ WF_vars(NextFinal)

FinalErrorShown == \E k \in 1..Len(final.notes) : final.notes[k].kind = "error"

FinalSucceeded ==
    /\ final.at = "returned"
    /\ final.createCalls = countTiles(final.tiles)
    /\ \E k \in 1..Len(final.notes) : final.notes[k].kind = "info"
    /\ ~FinalErrorShown
    /\ ~final.buttonDisabled

\* C30: the final handler reaches the upload stage, ends having issued one
\* createImage call per tile and shown the success notification with the
\* button enabled, and never shows the generic error notification.
C30_FinalImportSucceeds ==
    /\ <>(final.stage = 2)
    /\ <>FinalSucceeded
    /\ []~FinalErrorShown

====
